---- MODULE Spec2Model ----
(***************************************************************************)
(* Case Activity & Notification Orchestration of the law-firm backend:     *)
(* case mutations with their audit events, the notification pipeline that  *)
(* follows each of them, the retrying email sender and the daily           *)
(* inactivity scan.                                                        *)
(*                                                                         *)
(* The specifications share the variables:                                 *)
(*   Spec         request-triggered operations (create / update / assign)  *)
(*                and their detached notification pipelines, interleaved   *)
(*                at every await, with database calls that may throw;      *)
(*   SpecMail     emailNotificationService.sendEmail, one loop iteration   *)
(*                per step, against an arbitrary transport;                *)
(*   SpecMailLive SpecMail with weak fairness of its steps;                *)
(*   SpecScan     inactivityCheckJob.run over days of wall-clock time;     *)
(*   SpecCollab   the case service with messaging, document upload and     *)
(*                the intake form;                                         *)
(*   SpecIntake   the two creation paths, createCase and the intake form;  *)
(*   SpecNumber   case numbers of the two creation paths, from an empty    *)
(*                table;                                                   *)
(*   SpecRender   emailTemplateService.renderTemplate on bounded           *)
(*                templates;                                               *)
(*   SpecOverlap  runs of inactivityCheckJob that overlap.                 *)
(***************************************************************************)
EXTENDS Integers, Sequences, FiniteSets, TLC

VARIABLES
    now,            \* wall clock (CURRENT_TIMESTAMP / NOW() / Date.now()), in days
    cases,          \* table cases: sequence of rows, the row's index is its id
    events,         \* table case_events, in insertion order
    notifications,  \* table notifications; seq orders the rows one request wrote
    emails,         \* outcome of every emailNotificationService.sendEmail call
    procs,          \* the request handlers and their detached pipelines
    opCount,        \* number of requests received so far
    faults,         \* number of database calls that have thrown so far
    mail,           \* one call of sendEmail (SpecMail)
    scan,           \* one run of inactivityCheckJob (SpecScan)
    render,         \* one call of emailTemplateService.renderTemplate (SpecRender)
    jobs            \* the runs of inactivityCheckJob that may overlap (SpecOverlap)

vars == <<now, cases, events, notifications, emails, procs, opCount, faults, mail, scan,
          render, jobs>>

dbVars == <<cases, events, notifications, emails>>

-----------------------------------------------------------------------------
(* Bounds of the model                                                     *)

MaxOps == 2         \* requests received in one behaviour
MaxCases == 2       \* rows of table cases
MaxFaults == 1      \* database calls that throw in one behaviour
MaxClock == 1       \* ticks of the clock in Spec
MaxJobs == 2        \* runs of inactivityCheckJob that may overlap
MaxOverlapDays == 1 \* mornings that come while runs overlap

-----------------------------------------------------------------------------
(* Directory: users, clients, lawyers (static in this model)               *)

NULL == "null"
NoTime == 0 - 1     \* a NULL timestamp column

Clients == {"c1"}
Lawyers == {"l1", "l2"}
Admins == <<"a1", "a2">>      \* SELECT id FROM users WHERE role = 'admin' AND is_active
MissingClient == "c_missing"
MissingLawyer == "l_missing"

ClientUser(c) == "u_" \o c    \* clients.user_id
LawyerUser(l) == "u_" \o l    \* lawyers.user_id

\* one slot per request, in order of arrival; slot p holds request p
Procs == 1..MaxOps

\* the lawyers a createCase request may name
CreateLawyerInputs == {NULL, "l1", MissingLawyer}

\* CaseStatus enum
CaseStatus == {"new", "in_review", "active", "pending_client", "pending_documents",
               "in_progress", "awaiting_response", "resolved", "closed", "archived"}

\* the statuses requests are drawn from
StatusInputs == {"new", "in_review", "closed"}

\* CREATE TYPE case_event_type ... plus ALTER TYPE ... ADD VALUE 'message_sent'
DbCaseEventTypes == {"case_created", "case_updated", "status_changed", "document_uploaded",
                     "document_downloaded", "email_received", "email_sent", "lawyer_assigned",
                     "lawyer_note_added", "client_notified", "inactivity_alert", "message_sent"}

\* the TypeScript enum CaseEventType; a member it lacks evaluates to undefined
CaseEventType == {"case_created", "case_updated", "status_changed", "document_uploaded",
                  "document_downloaded", "email_received", "email_sent", "lawyer_assigned",
                  "lawyer_note_added", "client_notified", "inactivity_alert", "pending",
                  "message_sent"}

Undefined == "undefined"

EnumMember(name) == IF name \in CaseEventType THEN name ELSE Undefined

-----------------------------------------------------------------------------
(* Tables                                                                  *)

CaseIds == 1..Len(cases)

NoMeta == [old_status |-> NULL, new_status |-> NULL, lawyer_id |-> NULL, days_inactive |-> NoTime]

\* a row of cases as INSERT INTO cases leaves it (schema defaults)
NewCaseRow(client_id, lawyer_id) ==
    [client_id |-> client_id,
     lawyer_id |-> lawyer_id,
     status |-> "new",
     closed_at |-> NoTime,
     last_activity_at |-> now,
     last_inactivity_notification |-> NoTime,
     case_number |-> NULL,
     created_at |-> now]

\* day 0 of the clock is the last day of a year
YearOf(t) == IF t = 0 THEN 2026 ELSE 2027

\* the case types a request may carry, and intakeService.getCaseTypePrefix
CaseTypes == {"personal_injury", "family_law"}
getCaseTypePrefix(caseType) ==
    IF caseType = "personal_injury" THEN "PI"
    ELSE IF caseType = "family_law" THEN "FL"
    ELSE "OT"

\* a case number in parts: the literal before the year ("" when there is
\* none), the year, the type prefix ("" when there is none), the sequence
\* value and the width it is padded to
CaseNumber(literal, year, prefix, seq, width) ==
    [literal |-> literal, year |-> year, prefix |-> prefix, seq |-> seq, width |-> width]

Max(S) == CHOOSE m \in S : \A x \in S : x <= m

\* the database function generate_case_number(): 'CASE-' || year || '-' ||
\* lpad(nextval('case_number_seq'), 5, '0'); nextval is the value after the
\* highest one handed out (values lost to a rollback are not modelled)
generate_case_number(cs) ==
    LET used == {cs[id].case_number.seq :
                    id \in {i \in DOMAIN cs : cs[i].case_number.literal = "CASE"}}
    IN  CaseNumber("CASE", YearOf(now), "", Max(used \cup {0}) + 1, 5)

\* intakeService.generateCaseNumber: the numbers it may return, one for
\* each row the SELECT ... WHERE case_number LIKE '{year}-{prefix}-%' ORDER
\* BY created_at DESC LIMIT 1 may return (rows of equal created_at come in
\* any order), sequence 1 when it returns none
generateCaseNumber(caseType, cs) ==
    LET year == YearOf(now)
        typePrefix == getCaseTypePrefix(caseType)
        like == {id \in DOMAIN cs : /\ cs[id].case_number.literal = ""
                                    /\ cs[id].case_number.year = year
                                    /\ cs[id].case_number.prefix = typePrefix}
        latest == {id \in like : \A other \in like : cs[other].created_at <= cs[id].created_at}
    IN  IF like = {} THEN {CaseNumber("", year, typePrefix, 1, 4)}
        ELSE {CaseNumber("", year, typePrefix, cs[id].case_number.seq + 1, 4) : id \in latest}

\* cases.case_number is UNIQUE: the INSERT is rejected when the number exists
CaseNumberFree(cs, number) == \A id \in DOMAIN cs : cs[id].case_number # number

\* a row of case_events; `by` is the request that inserted it (0: the scanner)
CaseEventRow(case_id, event_type, metadata, by) ==
    [case_id |-> case_id,
     event_type |-> event_type,
     metadata |-> metadata,
     created_at |-> now,
     by |-> by]

\* the INSERT is rejected when event_type is NULL or no label of the enum
CaseEventInsertOk(event_type) == event_type \in DbCaseEventTypes

\* a bug that would insert the row twice
InsertCaseEventTwice(evts, row) == Append(Append(evts, row), row)

\* caseEventRepository.create: INSERT INTO case_events ... RETURNING *
InsertCaseEvent(evts, row) == Append(evts, row)

\* a bug that would leave the case as it is
TriggerIdle(cs, case_id) == cs

\* trigger update_case_activity_on_event
update_case_last_activity(cs, case_id) ==
    [cs EXCEPT ![case_id].last_activity_at = now]

\* a row of notifications, the seq-th one written for request `by`
NotificationRow(user_id, type, case_id, by) ==
    [user_id |-> user_id, type |-> type, case_id |-> case_id, by |-> by,
     seq |-> Cardinality({n \in notifications : n.by = by}) + 1]

\* the record of one sendEmail call
EmailRow(to, kind, case_id, ok, by) ==
    [to |-> to, kind |-> kind, case_id |-> case_id, ok |-> ok, by |-> by,
     seq |-> Cardinality({e \in emails : e.by = by}) + 1]

\* caseRepository.update: the SET list built from the defined fields
CaseUpdate(row, data) ==
    LET r1 == IF data.lawyer_id # NULL THEN [row EXCEPT !.lawyer_id = data.lawyer_id] ELSE row
        r2 == IF data.status # NULL THEN [r1 EXCEPT !.status = data.status] ELSE r1
    IN  IF data.status \in {"closed", "archived"} THEN [r2 EXCEPT !.closed_at = now] ELSE r2


-----------------------------------------------------------------------------
(* Request handlers                                                        *)

IdleProc ==
    [pc |-> "idle", op |-> "none", case |-> 0,
     client |-> NULL, lawyer |-> NULL, status |-> NULL,
     readStatus |-> NULL, result |-> "none",
     rowChanged |-> FALSE, committed |-> FALSE,
     activityBefore |-> NoTime, adminsLeft |-> <<>>,
     actor |-> NULL, role |-> NULL, tasks |-> {}, empty |-> FALSE,
     number |-> NULL, began |-> NoTime]

IdleMail ==
    [pc |-> "idle", apiKey |-> NULL, attempt |-> 0, sends |-> 0, result |-> "none",
     trace |-> <<>>, retryDelay |-> 0]

IdleScan ==
    [pc |-> "idle", selected |-> <<>>, i |-> 1, successCount |-> 0, failCount |-> 0,
     attempted |-> <<>>, runs |-> 0, sent |-> <<>>]

IdleRender ==
    [pc |-> "idle", template |-> <<>>, variables |-> <<>>,
     crashed |-> FALSE, rendered |-> <<>>, again |-> <<>>]

\* a run of inactivityCheckJob.run that has not started
IdleJob ==
    [pc |-> "idle", trigger |-> NULL, selected |-> <<>>, i |-> 1,
     successCount |-> 0, failCount |-> 0, sent |-> <<>>]

IdleJobs == [r \in 1..MaxJobs |-> IdleJob]

\* a database call of this step throws
Throws(fail) == fail /\ faults < MaxFaults

CountFault(fail) == faults' = IF fail THEN faults + 1 ELSE faults

\* the next request arrives: it takes slot p
Arrives(p) ==
    /\ p = opCount + 1
    /\ p \in Procs
    /\ opCount' = p

\* the handler throws to its caller: the HTTP response is an error
Fail(p, why) == [procs EXCEPT ![p].pc = "done", ![p].result = why]

\* a detached pipeline ends, normally or because one of its awaits rejected
\* (.catch logs it)
Done(p) == [procs EXCEPT ![p].pc = "done"]

\* a bug that would take every lawyer id for an existing one
LawyerAssumed(lawyer_id) == TRUE

\* lawyerRepository.findById returns a row
LawyerExists(lawyer_id) == lawyer_id \in Lawyers

\* cases.lawyer_id REFERENCES lawyers(id): the UPDATE is rejected otherwise
ForeignKeyOk(lawyer_id) == lawyer_id = NULL \/ lawyer_id \in Lawyers

(* caseService.createCase, lines 31-43: validate the client and the lawyer *)
CreateCaseValidate(p, client_id, lawyer_id, fail) ==
    /\ Arrives(p)
    /\ Len(cases) < MaxCases
    /\ fail => Throws(fail)
    /\ CountFault(fail)
    /\ LET started == [IdleProc EXCEPT !.op = "createCase",
                                       !.client = client_id, !.lawyer = lawyer_id,
                                       !.result = "pending"]
       IN  procs' = [procs EXCEPT ![p] =
                IF fail THEN [started EXCEPT !.pc = "done", !.result = "error"]
                ELSE IF client_id \notin Clients
                     THEN [started EXCEPT !.pc = "done", !.result = "not_found"]
                ELSE IF lawyer_id # NULL /\ ~LawyerExists(lawyer_id)
                     THEN [started EXCEPT !.pc = "done", !.result = "not_found"]
                ELSE [started EXCEPT !.pc = "cc_insert"]]
    /\ UNCHANGED <<now, dbVars, mail, scan, render, jobs>>

(* caseRepository.createWithEvent: one transaction inserting the case row   *)
(* and its case_created event; a failure of either statement rolls back     *)
createWithEvent(p, fail) ==
    /\ procs[p].pc = "cc_insert"
    /\ fail => Throws(fail)
    /\ CountFault(fail)
    /\ IF fail \/ ~CaseEventInsertOk(EnumMember("case_created")) \/ Len(cases) >= MaxCases
       THEN /\ procs' = Fail(p, "error")
            /\ UNCHANGED dbVars
       ELSE LET id == Len(cases) + 1
                row == [NewCaseRow(procs[p].client, procs[p].lawyer)
                           EXCEPT !.case_number = generate_case_number(cases)]
            IN  /\ cases' = update_case_last_activity(Append(cases, row), id)
                /\ events' = Append(events,
                       CaseEventRow(id, EnumMember("case_created"), NoMeta, p))
                /\ procs' = [procs EXCEPT ![p].case = id,
                                          ![p].rowChanged = TRUE,
                                          ![p].committed = TRUE,
                                          ![p].pc = "cc_lawyer_name"]
                /\ UNCHANGED <<notifications, emails>>
    /\ UNCHANGED <<now, opCount, mail, scan, render, jobs>>

(* caseService.createCase, lines 48-71: look up the lawyer's name for the   *)
(* notification texts (awaited by the handler), start the detached          *)
(* sendCaseCreationNotifications, return the new case                       *)
CreateCaseReturn(p, fail) ==
    /\ procs[p].pc = "cc_lawyer_name"
    /\ fail => (Throws(fail) /\ procs[p].lawyer # NULL)
    /\ CountFault(fail)
    /\ procs' = IF fail THEN Fail(p, "error")
                ELSE [procs EXCEPT ![p].result = "ok", ![p].pc = "ccn_client"]
    /\ UNCHANGED <<now, dbVars, opCount, mail, scan, render, jobs>>

(* caseService.sendCaseCreationNotifications, lines 83-98: look up the      *)
(* client's user, write the client's in-app notification, then send the     *)
(* case-submitted email (sendEmail reports failure as false, never throws)  *)
sendCaseCreationNotifications(p, fail, ok) ==
    /\ procs[p].pc = "ccn_client"
    /\ fail => (Throws(fail) /\ ok)
    /\ CountFault(fail)
    /\ IF fail
       THEN /\ procs' = Done(p)
            /\ UNCHANGED <<notifications, emails>>
       ELSE /\ notifications' = notifications \cup
                   {NotificationRow(ClientUser(procs[p].client), "new_case", procs[p].case, p)}
            /\ emails' = emails \cup
                   {EmailRow(ClientUser(procs[p].client), "caseSubmitted", procs[p].case, ok, p)}
            /\ procs' = [procs EXCEPT ![p].pc = "ccn_admins", ![p].adminsLeft = Admins]
    /\ UNCHANGED <<now, cases, events, opCount, mail, scan, render, jobs>>

(* where sendCaseCreationNotifications goes after notifyAdminsNewCase *)
AfterAdmins(p) == IF procs[p].lawyer # NULL THEN "ccn_lawyer" ELSE "done"

(* notificationService.notifyAdminsNewCase: one iteration of the loop over  *)
(* the active admins; a rejected INSERT leaves the loop and the caller      *)
notifyAdminsNewCase(p, fail) ==
    /\ procs[p].pc = "ccn_admins"
    /\ fail => Throws(fail)
    /\ CountFault(fail)
    /\ IF fail
       THEN /\ procs' = Done(p)
            /\ UNCHANGED notifications
       ELSE IF procs[p].adminsLeft = <<>>
       THEN /\ procs' = [procs EXCEPT ![p].pc = AfterAdmins(p)]
            /\ UNCHANGED notifications
       ELSE /\ notifications' = notifications \cup
                   {NotificationRow(Head(procs[p].adminsLeft), "new_case", procs[p].case, p)}
            /\ procs' = [procs EXCEPT
                   ![p].adminsLeft = Tail(procs[p].adminsLeft),
                   ![p].pc = IF Tail(procs[p].adminsLeft) = <<>>
                             THEN AfterAdmins(p) ELSE "ccn_admins"]
    /\ UNCHANGED <<now, cases, events, emails, opCount, mail, scan, render, jobs>>

(* notificationService.notifyLawyerNewCase: look up the lawyer's user and   *)
(* the case title, write the in-app notification, send the email detached;  *)
(* called last by sendCaseCreationNotifications and by notifyLawyerAssignment *)
(* (there after the lookups of lines 260-265)                               *)
notifyLawyerNewCase(p, fail, ok) ==
    /\ procs[p].pc \in {"ccn_lawyer", "aln_lawyer"}
    /\ fail => (Throws(fail) /\ ok)
    /\ CountFault(fail)
    /\ procs' = Done(p)
    /\ IF fail \/ procs[p].lawyer \notin Lawyers
       THEN UNCHANGED <<notifications, emails>>
       ELSE /\ notifications' = notifications \cup
                   {NotificationRow(LawyerUser(procs[p].lawyer), "new_case", procs[p].case, p)}
            /\ emails' = emails \cup
                   {EmailRow(LawyerUser(procs[p].lawyer), "caseAssignedToLawyer",
                             procs[p].case, ok, p)}
    /\ UNCHANGED <<now, cases, events, opCount, mail, scan, render, jobs>>

\* the UpdateCaseData a request may carry (title, description, case_type and
\* priority are not columns of this model)
UpdateInputs ==
    {[status |-> s, lawyer_id |-> NULL] : s \in StatusInputs \cup {NULL}}
    \cup {[status |-> NULL, lawyer_id |-> l] : l \in {"l2", MissingLawyer}}

\* who calls updateCase: an admin, a client, or the user of a lawyer
Actors == {"admin", "client", "l1"}

(* caseService.checkCaseAccess for the roles that reach it in updateCase *)
checkCaseAccess(row, actor) ==
    IF actor = "admin" THEN TRUE
    ELSE IF actor \in Lawyers THEN actor = row.lawyer_id
    ELSE TRUE

(* caseService.updateCase, lines 168-178: read the case, authorize *)
UpdateCaseRead(p, case_id, data, actor, fail) ==
    /\ Arrives(p)
    /\ fail => Throws(fail)
    /\ CountFault(fail)
    /\ LET started == [IdleProc EXCEPT !.op = "updateCase", !.case = case_id,
                                       !.status = data.status, !.lawyer = data.lawyer_id,
                                       !.result = "pending"]
       IN  procs' = [procs EXCEPT ![p] =
                IF fail THEN [started EXCEPT !.pc = "done", !.result = "error"]
                ELSE IF case_id \notin CaseIds
                     THEN [started EXCEPT !.pc = "done", !.result = "not_found"]
                ELSE IF actor = "client" \/ ~checkCaseAccess(cases[case_id], actor)
                     THEN [started EXCEPT !.pc = "done", !.result = "forbidden"]
                ELSE [started EXCEPT !.pc = "uc_update",
                                     !.client = cases[case_id].client_id,
                                     !.readStatus = cases[case_id].status,
                                     !.activityBefore = cases[case_id].last_activity_at]]
    /\ UNCHANGED <<now, dbVars, mail, scan, render, jobs>>

\* a bug that would drop the comparison with the status read
StatusProvided(p) == procs[p].status # NULL

(* caseService.updateCase, line 186: the request changes the status it read *)
StatusChanged(p) ==
    procs[p].status # NULL /\ procs[p].status # procs[p].readStatus

(* caseService.updateCase, lines 180-186: caseRepository.update, then       *)
(* either go on to the status_changed event or return                       *)
UpdateCaseWrite(p, fail) ==
    /\ procs[p].pc = "uc_update"
    /\ fail => Throws(fail)
    /\ CountFault(fail)
    /\ IF fail \/ ~ForeignKeyOk(procs[p].lawyer)
       THEN /\ procs' = Fail(p, "error")
            /\ UNCHANGED cases
       ELSE LET c == procs[p].case
                row == CaseUpdate(cases[c],
                           [status |-> procs[p].status, lawyer_id |-> procs[p].lawyer])
            IN  /\ cases' = [cases EXCEPT ![c] = row]
                /\ procs' = [procs EXCEPT
                       ![p].rowChanged = (row.status # cases[c].status
                                          \/ row.lawyer_id # cases[c].lawyer_id),
                       ![p].pc = IF StatusChanged(p) THEN "uc_event" ELSE "done",
                       ![p].result = IF StatusChanged(p) THEN "pending" ELSE "ok"]
    /\ UNCHANGED <<now, events, notifications, emails, opCount, mail, scan, render, jobs>>

\* a bug that would record the new status only
StatusMetadataNewOnly(p) == [NoMeta EXCEPT !.new_status = procs[p].status]

\* caseService.updateCase, line 192: the metadata of the status_changed event
StatusMetadata(p) ==
    [NoMeta EXCEPT !.old_status = procs[p].readStatus, !.new_status = procs[p].status]

(* caseService.updateCase, lines 187-208: append the status_changed event,  *)
(* start the detached client notification, return the updated case          *)
UpdateCaseEvent(p, fail) ==
    /\ procs[p].pc = "uc_event"
    /\ fail => Throws(fail)
    /\ CountFault(fail)
    /\ IF fail \/ ~CaseEventInsertOk(EnumMember("status_changed"))
       THEN /\ procs' = Fail(p, "error")
            /\ UNCHANGED <<cases, events>>
       ELSE /\ events' = InsertCaseEvent(events,
                            CaseEventRow(procs[p].case, EnumMember("status_changed"),
                                StatusMetadata(p), p))
            /\ cases' = update_case_last_activity(cases, procs[p].case)
            /\ procs' = [procs EXCEPT ![p].committed = TRUE, ![p].result = "ok",
                                      ![p].pc = "ucn_notify"]
    /\ UNCHANGED <<now, notifications, emails, opCount, mail, scan, render, jobs>>

(* notificationService.notifyClientCaseStatusUpdate: find the case's client, *)
(* write the in-app notification, send the status email detached             *)
notifyClientCaseStatusUpdate(p, fail, ok) ==
    /\ procs[p].pc = "ucn_notify"
    /\ fail => (Throws(fail) /\ ok)
    /\ CountFault(fail)
    /\ procs' = Done(p)
    /\ IF fail
       THEN UNCHANGED <<notifications, emails>>
       ELSE LET user == ClientUser(cases[procs[p].case].client_id)
            IN  /\ notifications' = notifications \cup
                       {NotificationRow(user, "case_update", procs[p].case, p)}
                /\ emails' = emails \cup
                       {EmailRow(user, "caseStatusChanged", procs[p].case, ok, p)}
    /\ UNCHANGED <<now, cases, events, opCount, mail, scan, render, jobs>>

(* caseService.assignLawyer, lines 212-220: read the case and the lawyer *)
AssignLawyerRead(p, case_id, lawyer_id, fail) ==
    /\ Arrives(p)
    /\ fail => Throws(fail)
    /\ CountFault(fail)
    /\ LET started == [IdleProc EXCEPT !.op = "assignLawyer", !.case = case_id,
                                       !.lawyer = lawyer_id, !.result = "pending"]
       IN  procs' = [procs EXCEPT ![p] =
                IF fail THEN [started EXCEPT !.pc = "done", !.result = "error"]
                ELSE IF case_id \notin CaseIds \/ ~LawyerExists(lawyer_id)
                     THEN [started EXCEPT !.pc = "done", !.result = "not_found"]
                ELSE [started EXCEPT !.pc = "al_update",
                                     !.client = cases[case_id].client_id,
                                     !.readStatus = cases[case_id].status,
                                     !.activityBefore = cases[case_id].last_activity_at]]
    /\ UNCHANGED <<now, dbVars, mail, scan, render, jobs>>

(* caseService.assignLawyer, lines 222-225: caseRepository.assignLawyer *)
AssignLawyerWrite(p, fail) ==
    /\ procs[p].pc = "al_update"
    /\ fail => Throws(fail)
    /\ CountFault(fail)
    /\ IF fail
       THEN /\ procs' = Fail(p, "error")
            /\ UNCHANGED cases
       ELSE LET c == procs[p].case
                row == CaseUpdate(cases[c], [status |-> NULL, lawyer_id |-> procs[p].lawyer])
            IN  /\ cases' = [cases EXCEPT ![c] = row]
                /\ procs' = [procs EXCEPT
                       ![p].rowChanged = (row.lawyer_id # cases[c].lawyer_id),
                       ![p].pc = "al_event"]
    /\ UNCHANGED <<now, events, notifications, emails, opCount, mail, scan, render, jobs>>

(* caseService.assignLawyer, lines 227-242: append the lawyer_assigned      *)
(* event, start the detached notifyLawyerAssignment, return the case        *)
AssignLawyerEvent(p, fail) ==
    /\ procs[p].pc = "al_event"
    /\ fail => Throws(fail)
    /\ CountFault(fail)
    /\ IF fail \/ ~CaseEventInsertOk(EnumMember("lawyer_assigned"))
       THEN /\ procs' = Fail(p, "error")
            /\ UNCHANGED <<cases, events>>
       ELSE /\ events' = InsertCaseEvent(events,
                            CaseEventRow(procs[p].case, EnumMember("lawyer_assigned"),
                                [NoMeta EXCEPT !.lawyer_id = procs[p].lawyer], p))
            /\ cases' = update_case_last_activity(cases, procs[p].case)
            /\ procs' = [procs EXCEPT ![p].committed = TRUE, ![p].result = "ok",
                                      ![p].pc = "aln_client"]
    /\ UNCHANGED <<now, notifications, emails, opCount, mail, scan, render, jobs>>

\* a bug that would go on to the lawyer without notifying the client
notifyLawyerOnly(p, fail, ok) ==
    /\ procs[p].pc = "aln_client"
    /\ fail => (Throws(fail) /\ ok)
    /\ CountFault(fail)
    /\ procs' = IF fail THEN Done(p) ELSE [procs EXCEPT ![p].pc = "aln_lawyer"]
    /\ UNCHANGED <<now, dbVars, opCount, mail, scan, render, jobs>>

(* caseService.notifyLawyerAssignment, lines 245-256: look up the lawyer's  *)
(* name, then notificationService.notifyClientLawyerAssigned (in-app        *)
(* notification to the client, email detached)                              *)
notifyLawyerAssignment(p, fail, ok) ==
    /\ procs[p].pc = "aln_client"
    /\ fail => (Throws(fail) /\ ok)
    /\ CountFault(fail)
    /\ IF fail
       THEN /\ procs' = Done(p)
            /\ UNCHANGED <<notifications, emails>>
       ELSE LET user == ClientUser(cases[procs[p].case].client_id)
            IN  /\ notifications' = notifications \cup
                       {NotificationRow(user, "case_assigned", procs[p].case, p)}
                /\ emails' = emails \cup
                       {EmailRow(user, "lawyerAssigned", procs[p].case, ok, p)}
                /\ procs' = [procs EXCEPT ![p].pc = "aln_lawyer"]
    /\ UNCHANGED <<now, cases, events, opCount, mail, scan, render, jobs>>

(* time passes between two awaits *)
ClockTick ==
    /\ now < MaxClock
    /\ now' = now + 1
    /\ UNCHANGED <<dbVars, procs, opCount, faults, mail, scan, render, jobs>>

-----------------------------------------------------------------------------
(* Spec: the request handlers over a database that already holds one case  *)

\* case 1 was created for client c1 before the behaviour starts
InitCases ==
    <<[NewCaseRow("c1", NULL) EXCEPT !.last_activity_at = 0, !.created_at = 0,
                                     !.case_number = CaseNumber("CASE", YearOf(0), "", 1, 5)]>>

InitEvents == <<[CaseEventRow(1, "case_created", NoMeta, 0) EXCEPT !.created_at = 0]>>

Init ==
    /\ now = 0
    /\ cases = InitCases
    /\ events = InitEvents
    /\ notifications = {}
    /\ emails = {}
    /\ procs = [p \in Procs |-> IdleProc]
    /\ opCount = 0
    /\ faults = 0
    /\ mail = IdleMail
    /\ scan = IdleScan
    /\ render = IdleRender
    /\ jobs = IdleJobs

Next ==
    \/ \E p \in Procs, c \in Clients \cup {MissingClient},
          l \in CreateLawyerInputs, fail \in BOOLEAN :
          CreateCaseValidate(p, c, l, fail)
    \/ \E p \in Procs, fail \in BOOLEAN : createWithEvent(p, fail)
    \/ \E p \in Procs, fail \in BOOLEAN : CreateCaseReturn(p, fail)
    \/ \E p \in Procs, fail \in BOOLEAN, ok \in BOOLEAN :
          sendCaseCreationNotifications(p, fail, ok)
    \/ \E p \in Procs, fail \in BOOLEAN : notifyAdminsNewCase(p, fail)
    \/ \E p \in Procs, fail \in BOOLEAN, ok \in BOOLEAN : notifyLawyerNewCase(p, fail, ok)
    \/ \E p \in Procs, c \in 1..MaxCases, d \in UpdateInputs, a \in Actors, fail \in BOOLEAN :
          UpdateCaseRead(p, c, d, a, fail)
    \/ \E p \in Procs, fail \in BOOLEAN : UpdateCaseWrite(p, fail)
    \/ \E p \in Procs, fail \in BOOLEAN : UpdateCaseEvent(p, fail)
    \/ \E p \in Procs, fail \in BOOLEAN, ok \in BOOLEAN :
          notifyClientCaseStatusUpdate(p, fail, ok)
    \/ \E p \in Procs, c \in 1..MaxCases, l \in Lawyers \cup {MissingLawyer},
          fail \in BOOLEAN : AssignLawyerRead(p, c, l, fail)
    \/ \E p \in Procs, fail \in BOOLEAN : AssignLawyerWrite(p, fail)
    \/ \E p \in Procs, fail \in BOOLEAN : AssignLawyerEvent(p, fail)
    \/ \E p \in Procs, fail \in BOOLEAN, ok \in BOOLEAN : notifyLawyerAssignment(p, fail, ok)
    \/ ClockTick

Spec == Init /\ [][Next]_vars

-----------------------------------------------------------------------------
(* Properties of the request handlers (Spec)                               *)

\* the case_events rows request p inserted
EventsBy(p) == {i \in DOMAIN events : events[i].by = p}

\* the users request p's pipeline has written an in-app notification for
NotifiedBy(p) == {n.user_id : n \in {m \in notifications : m.by = p}}

\* request p is a case mutation: a creation, an assignment, or an update
\* whose status differs from the status it read
IsMutation(p) ==
    \/ procs[p].op \in {"createCase", "assignLawyer"}
    \/ procs[p].op = "updateCase" /\ procs[p].status # NULL
                                  /\ procs[p].status # procs[p].readStatus

MatchingEventType(p) ==
    CASE procs[p].op = "createCase" -> "case_created"
      [] procs[p].op = "updateCase" -> "status_changed"
      [] procs[p].op = "assignLawyer" -> "lawyer_assigned"
      [] OTHER -> "none"

(* C1: once a request's case mutation and its CaseEvent append have         *)
(* succeeded, the request answers success whatever happens afterwards, and  *)
(* the committed event stays in the log.                                    *)
C1_CommittedRequestSucceeds ==
    \A p \in Procs :
        procs[p].committed =>
            /\ procs[p].result \in {"pending", "ok"}
            /\ \E i \in EventsBy(p) : events[i].event_type = MatchingEventType(p)

(* C2: a case mutation (create, status change to a different status,        *)
(* assign) that has returned appended exactly one CaseEvent, of the         *)
(* matching type, and left last_activity_at no smaller than it found it.    *)
C2_ExactlyOneEvent ==
    \A p \in Procs :
        (IsMutation(p) /\ procs[p].result = "ok") =>
            /\ Cardinality(EventsBy(p)) = 1
            /\ \A i \in EventsBy(p) :
                   /\ events[i].event_type = MatchingEventType(p)
                   /\ events[i].case_id = procs[p].case
            /\ cases[procs[p].case].last_activity_at >= procs[p].activityBefore

\* a status change and an assignment have returned, the clock having moved
C2_Witness ==
    /\ \E p \in Procs :
          /\ procs[p].op = "updateCase" /\ IsMutation(p) /\ procs[p].result = "ok"
          /\ cases[procs[p].case].last_activity_at > procs[p].activityBefore
    /\ \E p \in Procs : procs[p].op = "assignLawyer" /\ procs[p].result = "ok"

(* C3: in no reachable state has a request changed the case row (status or  *)
(* lawyer reference) while its CaseEvent is absent from the log.            *)
C3_RowChangeHasEvent ==
    \A p \in Procs :
        procs[p].rowChanged =>
            \E i \in EventsBy(p) :
                /\ events[i].event_type = MatchingEventType(p)
                /\ events[i].case_id = procs[p].case

\* the recipients of the case-created event of request p
CreationRecipients(p) ==
    {ClientUser(procs[p].client)}
    \cup {Admins[k] : k \in DOMAIN Admins}
    \cup (IF procs[p].lawyer \in Lawyers THEN {LawyerUser(procs[p].lawyer)} ELSE {})

(* C9: when the pipeline of a case creation has run to its end, a failed    *)
(* notification write has cost only its own recipient: the recipients left  *)
(* without a notification are no more than the writes that failed.          *)
C9_RecipientIsolation ==
    \A p \in Procs :
        (procs[p].op = "createCase" /\ procs[p].result = "ok" /\ procs[p].pc = "done") =>
            Cardinality(CreationRecipients(p) \ NotifiedBy(p)) <= faults

(* C10: an updateCase whose new status equals the status it read appends    *)
(* no CaseEvent and triggers no notification, in-app or email.              *)
C10_NoOpStatusWrite ==
    \A p \in Procs :
        (procs[p].op = "updateCase" /\ procs[p].status # NULL
            /\ procs[p].status = procs[p].readStatus) =>
            /\ EventsBy(p) = {}
            /\ {n \in notifications : n.by = p} = {}
            /\ {e \in emails : e.by = p} = {}
            /\ procs[p].pc \notin {"uc_event", "ucn_notify"}

\* a no-op status write has been applied and has returned
C10_Witness ==
    \E p \in Procs :
        /\ procs[p].op = "updateCase" /\ procs[p].pc = "done" /\ procs[p].result = "ok"
        /\ procs[p].status # NULL /\ procs[p].status = procs[p].readStatus
        /\ cases[procs[p].case].status = procs[p].status

\* the emails request p's pipeline has handed to sendEmail
EmailsBy(p) == {e \in emails : e.by = p}

(* C17: an updateCase that changes the status it read, old, to a different  *)
(* status new appends at most one event, a status_changed event with        *)
(* metadata {old_status: old, new_status: new}, and notifies no one but the *)
(* case's client, by at most one in-app notification and one email, after   *)
(* the event; when it has run to its end and no database call failed there  *)
(* is exactly one event, one in-app notification and one email.             *)
C17_StatusChangeEffects ==
    \A p \in Procs :
        (procs[p].op = "updateCase" /\ procs[p].readStatus # NULL /\ StatusChanged(p)) =>
            LET client == ClientUser(cases[procs[p].case].client_id)
            IN  /\ Cardinality(EventsBy(p)) <= 1
                /\ \A i \in EventsBy(p) :
                       /\ events[i].event_type = "status_changed"
                       /\ events[i].case_id = procs[p].case
                       /\ events[i].metadata.old_status = procs[p].readStatus
                       /\ events[i].metadata.new_status = procs[p].status
                       /\ events[i].metadata.old_status # events[i].metadata.new_status
                /\ Cardinality({n \in notifications : n.by = p}) <= 1
                /\ Cardinality(EmailsBy(p)) <= 1
                /\ NotifiedBy(p) \subseteq {client}
                /\ {e.to : e \in EmailsBy(p)} \subseteq {client}
                /\ NotifiedBy(p) # {} => EventsBy(p) # {}
                /\ (procs[p].pc = "done" /\ faults = 0) =>
                       /\ Cardinality(EventsBy(p)) = 1
                       /\ NotifiedBy(p) = {client}
                       /\ {e.to : e \in EmailsBy(p)} = {client}

\* the status of a case went from new to in_review: one event with both
\* statuses, one notification and one email for the client
C17_Witness ==
    \E p \in Procs :
        /\ procs[p].op = "updateCase" /\ procs[p].pc = "done" /\ procs[p].result = "ok"
        /\ procs[p].readStatus = "new" /\ procs[p].status = "in_review"
        /\ \E i \in EventsBy(p) :
               events[i].metadata.old_status = "new"
                   /\ events[i].metadata.new_status = "in_review"
        /\ NotifiedBy(p) = {ClientUser(cases[procs[p].case].client_id)}
        /\ Cardinality(EmailsBy(p)) = 1

\* the notifications of request p for the case's client that a lawyer was
\* assigned, and for the assigned lawyer that there is a new case
ClientAssignedBy(p) ==
    {n \in notifications : n.by = p /\ n.type = "case_assigned"
                               /\ n.user_id = ClientUser(cases[procs[p].case].client_id)}
LawyerNewCaseBy(p) ==
    {n \in notifications : n.by = p /\ n.type = "new_case"
                               /\ n.user_id = LawyerUser(procs[p].lawyer)}

(* C18: assignLawyer notifies the client (lawyer assigned) and the newly    *)
(* assigned lawyer (new case) and no one else, the client first: the        *)
(* lawyer's notification is written only after the client's, and both only *)
(* after the lawyer_assigned event has been appended; when the request has  *)
(* run to its end and no database call failed both are written.            *)
C18_AssignmentOrder ==
    \A p \in Procs :
        (procs[p].op = "assignLawyer" /\ procs[p].readStatus # NULL) =>
            /\ {n \in notifications : n.by = p} = ClientAssignedBy(p) \cup LawyerNewCaseBy(p)
            /\ Cardinality(ClientAssignedBy(p)) <= 1
            /\ Cardinality(LawyerNewCaseBy(p)) <= 1
            /\ ClientAssignedBy(p) # {} =>
                   \E i \in EventsBy(p) : events[i].event_type = "lawyer_assigned"
            /\ \A l \in LawyerNewCaseBy(p) :
                   \E c \in ClientAssignedBy(p) : c.seq < l.seq
            /\ (procs[p].pc = "done" /\ procs[p].result = "ok" /\ faults = 0) =>
                   ClientAssignedBy(p) # {} /\ LawyerNewCaseBy(p) # {}

\* an assignment has run to its end: the event, then the client's
\* notification, then the lawyer's
C18_Witness ==
    \E p \in Procs :
        /\ procs[p].op = "assignLawyer" /\ procs[p].pc = "done" /\ procs[p].result = "ok"
        /\ \E i \in EventsBy(p) : events[i].event_type = "lawyer_assigned"
        /\ \E c \in ClientAssignedBy(p), l \in LawyerNewCaseBy(p) : c.seq < l.seq

\* the status_changed events of a case, in the order of the timeline
StatusEvents(id) ==
    {k \in DOMAIN events :
        events[k].case_id = id /\ events[k].event_type = "status_changed"}

\* the status the timeline of a case ends in
ReplayedStatus(id) ==
    IF StatusEvents(id) = {} THEN "new"
    ELSE events[CHOOSE k \in StatusEvents(id) :
                    \A j \in StatusEvents(id) : j <= k].metadata.new_status

\* no updateCase is between its read and its event
NoUpdateInFlight == \A p \in Procs : procs[p].pc \notin {"uc_update", "uc_event"}

(* C25: the status of a case is the new_status of its most recent           *)
(* status_changed event, or new when it has none, also after two            *)
(* updateCase status changes on the same case whose read, update and        *)
(* append steps interleave: replaying the timeline gives the status.        *)
(* Stated for the states in which no updateCase is between its read and     *)
(* its event, in behaviours in which no database call throws.               *)
C25_TimelineGivesStatus ==
    (NoUpdateInFlight /\ faults = 0) =>
        \A id \in CaseIds : cases[id].status = ReplayedStatus(id)

\* request p has changed the lawyer reference of its case
LawyerChangedBy(p) ==
    /\ procs[p].op \in {"assignLawyer", "updateCase"}
    /\ procs[p].lawyer # NULL
    /\ procs[p].status = NULL
    /\ procs[p].rowChanged

\* the lawyer_assigned events request p has appended
AssignedEventsBy(p) == {i \in EventsBy(p) : events[i].event_type = "lawyer_assigned"}

(* C29: every change of the lawyer reference of a case comes with exactly   *)
(* one lawyer_assigned event and with the assignment notifications,         *)
(* whichever operation makes it: assignLawyer, or updateCase called with a  *)
(* lawyer_id. Stated for the requests that have run to their end in         *)
(* behaviours in which no database call throws.                             *)
C29_LawyerChangeRecorded ==
    faults = 0 =>
        \A p \in Procs :
            (LawyerChangedBy(p) /\ procs[p].pc = "done" /\ procs[p].result = "ok") =>
                /\ Cardinality(AssignedEventsBy(p)) = 1
                /\ ClientAssignedBy(p) # {}
                /\ LawyerNewCaseBy(p) # {}

\* request p writes the status its case already has, and nothing else
WritesSameStatus(p) ==
    /\ procs[p].pc = "uc_update"
    /\ procs'[p].pc # "uc_update"
    /\ procs[p].lawyer = NULL
    /\ procs[p].status = cases[procs[p].case].status

(* C30: a status write whose new status is the status the case has leaves   *)
(* the whole row of the case unchanged, closed_at included: closed_at is    *)
(* stamped only by a write that moves the case into closed or archived      *)
(* from another status, and writing closed on a closed case does not move   *)
(* closed_at.                                                               *)
C30_NoOpLeavesRow ==
    [][\A p \in Procs :
          WritesSameStatus(p) => cases'[procs[p].case] = cases[procs[p].case]]_vars

-----------------------------------------------------------------------------
(* SpecMail: emailNotificationService.sendEmail                            *)

\* RETRY_CONFIG
maxRetries == 3
baseDelayMs == 1000
maxDelayMs == 10000

\* Math.random() * 1000, in whole milliseconds
Jitters == {0, 500, 999}

Pow2(n) == IF n = 0 THEN 1 ELSE IF n = 1 THEN 2 ELSE IF n = 2 THEN 4 ELSE 8

Min(a, b) == IF a < b THEN a ELSE b

\* a bug that would grow the delay by baseDelayMs a retry instead of doubling
LinearRetryDelay(attempt, jitter) ==
    Min(baseDelayMs * (attempt + 1) + jitter, maxDelayMs)

\* getRetryDelay
getRetryDelay(attempt, jitter) ==
    Min(baseDelayMs * Pow2(attempt) + jitter, maxDelayMs)

\* what one call of resend.emails.send can do: resolve without an error,
\* resolve with an error object, or throw; statusCode 0 and code NULL stand
\* for an absent property
SendOk == [kind |-> "ok", statusCode |-> 0, code |-> NULL]

ErrorShapes ==
    {[statusCode |-> s, code |-> NULL] : s \in {400, 429, 500, 503}}
    \cup {[statusCode |-> 0, code |-> c] :
             c \in {"ECONNRESET", "ETIMEDOUT", "ENOTFOUND", "EOTHER"}}

ThrownShapes ==
    {[statusCode |-> 400, code |-> NULL], [statusCode |-> 0, code |-> "ETIMEDOUT"],
     [statusCode |-> 0, code |-> NULL]}

TransportOutcomes ==
    {SendOk}
    \cup {[kind |-> "error", statusCode |-> e.statusCode, code |-> e.code] : e \in ErrorShapes}
    \cup {[kind |-> "throw", statusCode |-> e.statusCode, code |-> e.code] : e \in ThrownShapes}

\* a bug that would retry on a rate limit only
RetryableOnRateLimit(error) == error.statusCode = 429

\* isRetryableError
isRetryableError(error) ==
    IF error.statusCode # 0
    THEN error.statusCode = 429 \/ error.statusCode >= 500
    ELSE error.code \in {"ECONNRESET", "ETIMEDOUT", "ENOTFOUND"}

\* a bug that would leave the attempt counter where it is
SameAttempt(attempt) == attempt

\* the attempt++ of the for loop
NextAttempt(attempt) == attempt + 1

\* config.resend.apiKey as sendEmail finds it: set, or empty
ApiKey(configured) == IF configured THEN "re_key" ELSE ""

\* a bug that would enter the loop without looking at the API key
MailCallUnchecked(configured) ==
    /\ mail.pc = "idle"
    /\ mail' = [mail EXCEPT !.apiKey = ApiKey(configured), !.pc = "send"]
    /\ UNCHANGED <<now, dbVars, procs, opCount, faults, scan, render, jobs>>

\* sendEmail is called; without an API key (config.resend.apiKey) it
\* returns false at once
MailCall(configured) ==
    /\ mail.pc = "idle"
    /\ mail' = IF configured
               THEN [mail EXCEPT !.apiKey = ApiKey(configured), !.pc = "send"]
               ELSE [mail EXCEPT !.apiKey = ApiKey(configured),
                                 !.pc = "done", !.result = "false"]
    /\ UNCHANGED <<now, dbVars, procs, opCount, faults, scan, render, jobs>>

\* a bug that would have no catch block: an exception of the transport
\* leaves sendEmail
MailAttemptUncaught(outcome, jitter) ==
    /\ mail.pc = "send"
    /\ LET tried == [mail EXCEPT !.sends = mail.sends + 1,
                                 !.trace = Append(mail.trace, outcome)]
           retry == [tried EXCEPT !.pc = "delay",
                                  !.retryDelay = getRetryDelay(mail.attempt, jitter)]
           fails == [tried EXCEPT !.pc = "done", !.result = "false"]
       IN  mail' =
             IF outcome.kind = "ok" THEN [tried EXCEPT !.pc = "done", !.result = "true"]
             ELSE IF outcome.kind = "error"
             THEN IF ~isRetryableError(outcome) \/ mail.attempt = maxRetries
                  THEN fails ELSE retry
             ELSE [tried EXCEPT !.pc = "done", !.result = "exception"]
    /\ UNCHANGED <<now, dbVars, procs, opCount, faults, scan, render, jobs>>

\* one iteration of the loop: resend.emails.send, then the branches of
\* lines 317-346
MailAttempt(outcome, jitter) ==
    /\ mail.pc = "send"
    /\ LET tried == [mail EXCEPT !.sends = mail.sends + 1,
                                 !.trace = Append(mail.trace, outcome)]
           retry == [tried EXCEPT !.pc = "delay",
                                  !.retryDelay = getRetryDelay(mail.attempt, jitter)]
           fails == [tried EXCEPT !.pc = "done", !.result = "false"]
       IN  mail' =
             IF outcome.kind = "ok" THEN [tried EXCEPT !.pc = "done", !.result = "true"]
             ELSE IF outcome.kind = "error"
             THEN IF ~isRetryableError(outcome) \/ mail.attempt = maxRetries
                  THEN fails ELSE retry
             ELSE IF mail.attempt = maxRetries THEN fails ELSE retry
    /\ UNCHANGED <<now, dbVars, procs, opCount, faults, scan, render, jobs>>

\* the delay is over: the loop goes round, or ends at line 349 when the
\* loop condition fails
MailDelay ==
    /\ mail.pc = "delay"
    /\ LET attempt == NextAttempt(mail.attempt)
       IN  mail' = IF attempt <= maxRetries
                   THEN [mail EXCEPT !.attempt = attempt, !.pc = "send"]
                   ELSE [mail EXCEPT !.attempt = attempt, !.pc = "done", !.result = "false"]
    /\ UNCHANGED <<now, dbVars, procs, opCount, faults, scan, render, jobs>>

NextMail ==
    \/ \E configured \in BOOLEAN : MailCall(configured)
    \/ \E outcome \in TransportOutcomes, jitter \in Jitters : MailAttempt(outcome, jitter)
    \/ MailDelay

SpecMail == Init /\ [][NextMail]_vars

\* every await of sendEmail is resumed: the transport call settles (it
\* resolves or rejects) and the timer of delay() fires
SpecMailLive == SpecMail /\ WF_vars(NextMail)

\* the failure is retryable as the specification defines it: status 429 or
\* >= 500, or a connection error (reset, timeout, DNS failure)
RetryableFailure(o) ==
    \/ o.statusCode = 429
    \/ o.statusCode >= 500
    \/ o.code \in {"ECONNRESET", "ETIMEDOUT", "ENOTFOUND"}

\* after the i-th attempt sendEmail makes, or is about to make, another one
AttemptFollows(i) == i < Len(mail.trace) \/ mail.pc \in {"delay", "send"}

(* C4: sendEmail never makes more than maxRetries + 1 send attempts for a   *)
(* message, whatever the transport returns or throws.                       *)
C4_AttemptsBounded ==
    /\ mail.sends <= maxRetries + 1
    /\ mail.sends = Len(mail.trace)

\* all maxRetries + 1 attempts were made, an exception among the failures
C4_Witness ==
    /\ mail.pc = "done"
    /\ mail.sends = maxRetries + 1
    /\ \E i \in DOMAIN mail.trace : mail.trace[i].kind = "throw"
    /\ \E i \in DOMAIN mail.trace : mail.trace[i].kind = "error"

(* C5: after a failed attempt another attempt follows if and only if the    *)
(* failure is retryable and fewer than maxRetries + 1 attempts were made;   *)
(* a non-retryable failure, returned or thrown, is the last attempt and     *)
(* the result is false.                                                     *)
C5_RetryIffRetryable ==
    \A i \in DOMAIN mail.trace :
        mail.trace[i].kind # "ok" =>
            /\ AttemptFollows(i) <=> (RetryableFailure(mail.trace[i]) /\ i < maxRetries + 1)
            /\ ~RetryableFailure(mail.trace[i]) =>
                   /\ i = Len(mail.trace) /\ mail.sends = i
                   /\ mail.pc = "done" /\ mail.result = "false"

\* every attempt made so far failed
AllFailed == \A i \in DOMAIN mail.trace : mail.trace[i].kind # "ok"

(* C12: sendEmail is total: whatever the transport does (returned error,   *)
(* thrown exception, success) it ends, and ends with a boolean, never with  *)
(* an exception; when all maxRetries + 1 attempts fail the boolean is       *)
(* false.                                                                   *)
C12_SendEmailTotal ==
    /\ [](mail.result \in {"none", "true", "false"})
    /\ [](mail.pc = "done" <=> mail.result \in {"true", "false"})
    /\ []((mail.sends = maxRetries + 1 /\ AllFailed)
              => (mail.pc = "done" /\ mail.result = "false"))
    /\ <>(mail.pc = "done")

\* all maxRetries + 1 attempts ended in an exception, the result is false
C12_Witness ==
    /\ mail.pc = "done" /\ mail.result = "false"
    /\ mail.sends = maxRetries + 1
    /\ \A i \in DOMAIN mail.trace : mail.trace[i].kind = "throw"

\* a returned error of status 500
Error500 == [kind |-> "error", statusCode |-> 500, code |-> NULL]

\* the first k attempts the transport answered with status 500
FailedWith500(k) ==
    /\ k <= Len(mail.trace)
    /\ \A i \in 1..k : mail.trace[i] = Error500

(* C13: when the transport fails with status 500 on the first k attempts,   *)
(* k <= maxRetries, sendEmail goes on to attempt k + 1, and when that       *)
(* attempt succeeds it returns true after exactly k + 1 attempts (4         *)
(* attempts for k = 3).                                                     *)
C13_SucceedsAfterRetries ==
    \A k \in 0..maxRetries :
        /\ (FailedWith500(k) /\ Len(mail.trace) = k /\ mail.apiKey = ApiKey(TRUE))
               => mail.pc \in {"send", "delay"}
        /\ (FailedWith500(k) /\ Len(mail.trace) > k /\ mail.trace[k + 1] = SendOk)
               => /\ mail.pc = "done" /\ mail.result = "true"
                  /\ mail.sends = k + 1 /\ Len(mail.trace) = k + 1

\* status 500 on attempts 1 to 3, success on attempt 4
C13_Witness ==
    /\ mail.trace = <<Error500, Error500, Error500, SendOk>>
    /\ mail.result = "true" /\ mail.sends = maxRetries + 1

(* C14: without the API key sendEmail makes no send attempt, waits for no   *)
(* retry, and returns false.                                                *)
C14_NotConfigured ==
    mail.apiKey = ApiKey(FALSE) =>
        /\ mail.pc = "done" /\ mail.result = "false"
        /\ mail.sends = 0 /\ mail.trace = <<>>
        /\ mail.attempt = 0 /\ mail.retryDelay = 0

\* sendEmail has returned without an API key
C14_Witness == mail.apiKey = ApiKey(FALSE) /\ mail.pc = "done" /\ mail.result = "false"

(* C23: the delay sendEmail waits before retry k, k = 0..maxRetries - 1, is  *)
(* min(maxDelayMs, baseDelayMs * 2^k + jitter) for a jitter of 0 to 1000     *)
(* ms: it lies within [baseDelayMs * 2^k, maxDelayMs + 1000] and never       *)
(* exceeds maxDelayMs; with the defaults the delays are at least 1000, 2000  *)
(* and 4000 ms and at most 10000 ms.                                         *)
C23_RetryDelayBounds ==
    mail.pc = "delay" =>
        LET k == mail.attempt
        IN  /\ k \in 0..(maxRetries - 1)
            /\ \E jitter \in 0..1000 :
                   mail.retryDelay = Min(maxDelayMs, baseDelayMs * 2^k + jitter)
            /\ mail.retryDelay >= baseDelayMs * 2^k
            /\ mail.retryDelay <= maxDelayMs
            /\ mail.retryDelay <= maxDelayMs + 1000
            /\ mail.retryDelay >= <<1000, 2000, 4000>>[k + 1]
            /\ mail.retryDelay <= 10000

\* sendEmail waits 4999 ms before its third retry
C23_Witness ==
    /\ mail.pc = "delay" /\ mail.attempt = maxRetries - 1
    /\ mail.sends = maxRetries
    /\ mail.retryDelay = 4999

-----------------------------------------------------------------------------
(* SpecScan: inactivityCheckJob, time counted in days                      *)

MaxRuns == 3           \* runs of the job in one behaviour
MaxDaysPassed == 9     \* days that pass after the first scan day

\* config.business.inactivityDaysThreshold || 21
ThresholdDays == 21
\* INTERVAL '7 days'
ThrottleDays == 7

FirstScanDay == ThresholdDays + 1

\* the cases the job finds in the table on the first scan day
ScanStatuses == {"active", "resolved", "closed", "archived"}
ActivityDays == {0, 1}
DaySteps == {1, 6}

ScanCaseRows ==
    {[NewCaseRow("c1", NULL) EXCEPT !.status = st, !.last_activity_at = la] :
        st \in ScanStatuses, la \in ActivityDays}

\* a bug that would let the boundary day through
SelectedAtBoundary(row, today, daysThreshold) ==
    /\ row.status \notin {"closed", "archived", "resolved"}
    /\ row.last_activity_at <= today - daysThreshold
    /\ \/ row.last_inactivity_notification = NoTime
       \/ row.last_inactivity_notification <= today - ThrottleDays

\* the WHERE clause of getInactiveCasesForNotification, NOW() = today
InactiveForNotification(row, today, daysThreshold) ==
    /\ row.status \notin {"closed", "archived", "resolved"}
    /\ row.last_activity_at < today - daysThreshold
    /\ \/ row.last_inactivity_notification = NoTime
       \/ row.last_inactivity_notification < today - ThrottleDays

\* the result sets the query may return: the rows of the WHERE clause,
\* ORDER BY last_activity_at ASC, rows of equal last_activity_at in any order
getInactiveCasesForNotification(daysThreshold) ==
    LET ids == {id \in CaseIds : InactiveForNotification(cases[id], now, daysThreshold)}
        n == Cardinality(ids)
    IN  {sq \in [1..n -> ids] :
            /\ \A j, k \in 1..n : j # k => sq[j] # sq[k]
            /\ \A j, k \in 1..n :
                   j < k => cases[sq[j]].last_activity_at <= cases[sq[k]].last_activity_at}

\* a bug that would let one failure end the loop
ScanAborted(s) ==
    [s EXCEPT !.failCount = s.failCount + 1, !.i = Len(s.selected) + 1, !.pc = "loop"]

\* the catch block of run: count the failure, go on with the next case
ScanCaught(s) ==
    [s EXCEPT !.failCount = s.failCount + 1, !.i = s.i + 1, !.pc = "loop"]

\* run, lines 24-33: the query; when it throws the run ends there
ScanStart(fail) ==
    /\ scan.pc = "idle"
    /\ scan.runs < MaxRuns
    /\ CountFault(Throws(fail))
    /\ \E inactiveCases \in getInactiveCasesForNotification(ThresholdDays) :
           scan' = [scan EXCEPT !.runs = scan.runs + 1,
                                !.selected = IF Throws(fail) THEN <<>> ELSE inactiveCases,
                                !.i = 1, !.successCount = 0, !.failCount = 0,
                                !.attempted = <<>>,
                                !.pc = IF Throws(fail) THEN "idle" ELSE "loop"]
    /\ UNCHANGED <<now, dbVars, procs, opCount, mail, render, jobs>>

\* sendInactivityNotification: the in-app notification, then the email
sendInactivityNotification(fail, ok) ==
    /\ scan.pc = "loop"
    /\ scan.i <= Len(scan.selected)
    /\ CountFault(Throws(fail))
    /\ LET id == scan.selected[scan.i]
           tried == [scan EXCEPT !.attempted = Append(scan.attempted, id)]
       IN  IF Throws(fail)
           THEN /\ scan' = ScanCaught(tried)
                /\ UNCHANGED <<notifications, emails>>
           ELSE /\ notifications' = notifications \cup
                      {NotificationRow(ClientUser(cases[id].client_id), "system_alert", id, 0)}
                /\ emails' = emails \cup
                      {EmailRow(ClientUser(cases[id].client_id), "inactivityReminder", id, ok, 0)}
                /\ scan' = [tried EXCEPT !.pc = "stamp",
                               !.sent = Append(scan.sent,
                                   [case |-> id, at |-> now, run |-> scan.runs])]
    /\ UNCHANGED <<now, cases, events, procs, opCount, mail, render, jobs>>

\* updateNotificationTimestamp
updateNotificationTimestamp(fail) ==
    /\ scan.pc = "stamp"
    /\ CountFault(Throws(fail))
    /\ IF Throws(fail)
       THEN /\ scan' = ScanCaught(scan)
            /\ UNCHANGED cases
       ELSE /\ cases' = [cases EXCEPT
                   ![scan.selected[scan.i]].last_inactivity_notification = now]
            /\ scan' = [scan EXCEPT !.pc = "log"]
    /\ UNCHANGED <<now, events, notifications, emails, procs, opCount, mail, render, jobs>>

\* logInactivityEvent, then successCount++
logInactivityEvent(fail) ==
    /\ scan.pc = "log"
    /\ CountFault(Throws(fail))
    /\ LET id == scan.selected[scan.i]
           event_type == EnumMember("deadline_reminder")
           row == CaseEventRow(id, event_type,
                      [NoMeta EXCEPT !.days_inactive = now - cases[id].last_activity_at], 0)
       IN  IF Throws(fail) \/ ~CaseEventInsertOk(event_type)
           THEN /\ scan' = ScanCaught(scan)
                /\ UNCHANGED <<cases, events>>
           ELSE /\ events' = InsertCaseEvent(events, row)
                /\ cases' = update_case_last_activity(cases, id)
                /\ scan' = [scan EXCEPT !.successCount = scan.successCount + 1,
                                        !.i = scan.i + 1, !.pc = "loop"]
    /\ UNCHANGED <<now, notifications, emails, procs, opCount, mail, render, jobs>>

\* run, line 48: the loop is over
ScanFinish ==
    /\ scan.pc = "loop"
    /\ scan.i > Len(scan.selected)
    /\ scan' = [scan EXCEPT !.pc = "idle"]
    /\ UNCHANGED <<now, dbVars, procs, opCount, faults, mail, render, jobs>>

\* days pass between two runs of the job
DaysPass(d) ==
    /\ scan.pc = "idle"
    /\ now + d <= FirstScanDay + MaxDaysPassed
    /\ now' = now + d
    /\ UNCHANGED <<dbVars, procs, opCount, faults, mail, scan, render, jobs>>

InitScan ==
    /\ now = FirstScanDay
    /\ cases \in [1..MaxCases -> ScanCaseRows]
    /\ events = <<>>
    /\ notifications = {}
    /\ emails = {}
    /\ procs = [p \in Procs |-> IdleProc]
    /\ opCount = 0
    /\ faults = 0
    /\ mail = IdleMail
    /\ scan = IdleScan
    /\ render = IdleRender
    /\ jobs = IdleJobs

NextScan ==
    \/ \E fail \in BOOLEAN : ScanStart(fail)
    \/ \E fail \in BOOLEAN, ok \in BOOLEAN : sendInactivityNotification(fail, ok)
    \/ \E fail \in BOOLEAN : updateNotificationTimestamp(fail)
    \/ \E fail \in BOOLEAN : logInactivityEvent(fail)
    \/ ScanFinish
    \/ \E d \in DaySteps : DaysPass(d)

SpecScan == InitScan /\ [][NextScan]_vars

\* the selection predicate as the specification words it
SpecSelects(row, today) ==
    /\ row.status \notin {"closed", "archived", "resolved"}
    /\ today - row.last_activity_at > ThresholdDays
    /\ \/ row.last_inactivity_notification = NoTime
       \/ today - row.last_inactivity_notification > ThrottleDays

Range(sq) == {sq[k] : k \in DOMAIN sq}

(* C6: a run of the scan selects exactly the cases whose status is not     *)
(* closed, archived or resolved, whose last activity is more than the       *)
(* threshold ago and whose last inactivity notification is null or more     *)
(* than 7 days ago; a case notified at T is left out at T + 6 days and      *)
(* taken at T + 8 days.                                                     *)
C6_SelectionPredicate ==
    [][(scan.pc = "idle" /\ scan'.pc = "loop") =>
          /\ Range(scan'.selected) = {id \in CaseIds : SpecSelects(cases[id], now)}
          /\ \A id \in CaseIds :
                 /\ cases[id].last_inactivity_notification = now - 6
                        => id \notin Range(scan'.selected)
                 /\ (/\ cases[id].last_inactivity_notification = now - 8
                     /\ cases[id].status = "active"
                     /\ now - cases[id].last_activity_at > ThresholdDays)
                        => id \in Range(scan'.selected)]_vars

\* a run has just selected a case notified 8 days before and left out a
\* stale one notified 6 days before
C6_Witness ==
    /\ scan.pc = "loop" /\ scan.i = 1
    /\ \E id \in Range(scan.selected) : cases[id].last_inactivity_notification = now - 8
    /\ \E id \in CaseIds \ Range(scan.selected) :
           /\ cases[id].last_inactivity_notification = now - 6
           /\ cases[id].status = "active"
           /\ now - cases[id].last_activity_at > ThresholdDays

(* C7: a run of the scanner less than 7 days after a run that notified a    *)
(* case sends no further notification for that case, whichever step of      *)
(* the first run failed after the notification.                             *)
C7_NoRenotification ==
    \A j, k \in DOMAIN scan.sent :
        (j < k /\ scan.sent[j].case = scan.sent[k].case) =>
            scan.sent[k].at - scan.sent[j].at >= ThrottleDays

(* C8: a failure on one selected case does not end the batch: the cases    *)
(* are attempted once each in the order selected, and when the run is      *)
(* over successCount + failCount is the number of selected cases.          *)
C8_BatchIsolation ==
    /\ Len(scan.attempted) <= Len(scan.selected)
    /\ \A k \in DOMAIN scan.attempted : scan.attempted[k] = scan.selected[k]
    /\ scan.pc = "idle" =>
           /\ scan.attempted = scan.selected
           /\ scan.successCount + scan.failCount = Len(scan.selected)

\* a run over two selected cases is over, a failure counted for the first
C8_Witness ==
    /\ scan.pc = "idle"
    /\ Len(scan.selected) = 2
    /\ scan.attempted = scan.selected
    /\ scan.failCount >= 1

\* the reminder events of a case written on day t
ReminderEvents(id, t) ==
    {k \in DOMAIN events :
        /\ events[k].case_id = id
        /\ events[k].created_at = t
        /\ events[k].metadata.days_inactive # NoTime}

\* the run in progress has written the in-app notification of the case
NotifiedInRun(id) ==
    \E k \in DOMAIN scan.sent :
        scan.sent[k].case = id /\ scan.sent[k].run = scan.runs /\ scan.sent[k].at = now

\* the notification comes before the stamp, the stamp before the event
ScanOrderKept ==
    /\ scan.pc \in {"stamp", "log"} => NotifiedInRun(scan.selected[scan.i])
    /\ scan.pc = "stamp" =>
           /\ cases[scan.selected[scan.i]].last_inactivity_notification # now
           /\ ReminderEvents(scan.selected[scan.i], now) = {}
    /\ scan.pc = "log" =>
           /\ cases[scan.selected[scan.i]].last_inactivity_notification = now
           /\ ReminderEvents(scan.selected[scan.i], now) = {}

\* without the notification there is neither a stamp nor an event
ScanFailureLeavesNothing ==
    \A id \in CaseIds :
        LET t == cases[id].last_inactivity_notification
        IN  /\ t # NoTime =>
                   \E k \in DOMAIN scan.sent : scan.sent[k].case = id /\ scan.sent[k].at = t
            /\ \A k \in DOMAIN events :
                   events[k].metadata.days_inactive # NoTime =>
                       \E j \in DOMAIN scan.sent :
                           /\ scan.sent[j].case = events[k].case_id
                           /\ scan.sent[j].at = events[k].created_at

\* the cases of the run in progress that have all three effects
FullyReminded ==
    {k \in DOMAIN scan.selected :
        /\ NotifiedInRun(scan.selected[k])
        /\ cases[scan.selected[k]].last_inactivity_notification = now
        /\ Cardinality(ReminderEvents(scan.selected[k], now)) = 1}

\* a case counted as a success has all three effects
ScanSuccessComplete == scan.successCount <= Cardinality(FullyReminded)

\* a run in which nothing throws takes every selected case through the
\* three steps
ScanAppendsReminder ==
    (scan.pc = "idle" /\ scan.runs > 0 /\ faults = 0) =>
        /\ FullyReminded = DOMAIN scan.selected
        /\ scan.successCount = Len(scan.selected)

(* C24: for each case the scan selects, the steps run in the order          *)
(* notification (in-app, then email), stamp last_inactivity_notification,   *)
(* append a reminder event recording the days inactive; a case counted as   *)
(* a success has the notification, the stamp and exactly one reminder       *)
(* event, and when the notification step fails neither the stamp nor the    *)
(* event is written.                                                        *)
C24_ScanSteps ==
    /\ ScanOrderKept
    /\ ScanFailureLeavesNothing
    /\ ScanSuccessComplete
    /\ ScanAppendsReminder

\* the scan is past its third step for the case
PastLogStep(id) ==
    ~(scan.pc \in {"stamp", "log"} /\ scan.selected[scan.i] = id)

\* a case the scan reminded and stamped at T was active at T or later
ReminderStampsActivity ==
    \A id \in CaseIds :
        LET T == cases[id].last_inactivity_notification
        IN  (T # NoTime /\ PastLogStep(id)) => cases[id].last_activity_at >= T

\* two reminders of a case are more than the threshold apart
NextSelectionAfterThreshold ==
    \A j, k \in DOMAIN scan.sent :
        (j < k /\ scan.sent[j].case = scan.sent[k].case) =>
            scan.sent[k].at - scan.sent[j].at > ThresholdDays

(* C27: the reminder event of the scanner counts as activity of the case:   *)
(* after a scan at T has gone through its three steps for a case,           *)
(* last_activity_at of the case is at least T, so with no other activity    *)
(* the case is next selected by a run more than thresholdDays after T and   *)
(* not by the first run more than 7 days after T. Stated for the            *)
(* behaviours in which no database call throws.                             *)
C27_ReminderIsActivity ==
    faults = 0 => (ReminderStampsActivity /\ NextSelectionAfterThreshold)

\* a run in which nothing threw is over
RunOverNoThrow == scan.pc = "idle" /\ scan.runs > 0 /\ faults = 0

\* the cases the run notified are stamped, whatever became of the email
StampedWhateverTheEmail ==
    RunOverNoThrow =>
        \A k \in DOMAIN scan.selected :
            \E j \in DOMAIN scan.sent :
                /\ scan.sent[j].case = scan.selected[k]
                /\ scan.sent[j].run = scan.runs
                /\ cases[scan.selected[k]].last_inactivity_notification = scan.sent[j].at

\* the cases the run notified are counted as successes, whatever became of
\* the email
CountedWhateverTheEmail ==
    RunOverNoThrow => scan.successCount = Len(scan.selected)

\* the email is not attempted again before the throttle has passed
EmailNotRepeatedInThrottle ==
    faults = 0 =>
        \A j, k \in DOMAIN scan.sent :
            (j < k /\ scan.sent[j].case = scan.sent[k].case) =>
                scan.sent[k].at - scan.sent[j].at > ThrottleDays

(* C28: the scanner stamps last_inactivity_notification and counts the      *)
(* case as a success whenever the in-app notification is written,           *)
(* whatever the outcome of the email: when sendInactivityReminder returns   *)
(* false the case is stamped all the same, and the email is not attempted   *)
(* again until the 7 days of the throttle have passed. Stated for the       *)
(* behaviours in which no database call throws.                             *)
C28_StampIgnoresEmail ==
    /\ StampedWhateverTheEmail
    /\ CountedWhateverTheEmail
    /\ EmailNotRepeatedInThrottle

-----------------------------------------------------------------------------
(* Collaborators that append case events: messaging, document upload, the  *)
(* intake form and inbound email                                           *)

\* the authenticated users that send messages and upload documents
Users == {"u_c1", "u_l1", "a1"}

\* users.role
RoleOf(user) ==
    IF \E k \in DOMAIN Admins : Admins[k] = user THEN "admin"
    ELSE IF \E l \in Lawyers : LawyerUser(l) = user THEN "lawyer"
    ELSE "client"

\* clientRepository.findByUserId / lawyerRepository.findByUserId, then the
\* comparison with the case's client_id / lawyer_id
checkMessageAccess(row, userId, userRole) ==
    IF userRole = "admin" THEN TRUE
    ELSE IF userRole = "client"
    THEN \E c \in Clients : ClientUser(c) = userId /\ c = row.client_id
    ELSE \E l \in Lawyers : LawyerUser(l) = userId /\ l = row.lawyer_id

(* messageService.sendMessage, lines 16-28: validate the content, read the *)
(* case, check access                                                      *)
SendMessageRead(p, case_id, senderId, empty, fail) ==
    /\ Arrives(p)
    /\ fail => (Throws(fail) /\ ~empty)
    /\ CountFault(fail)
    /\ LET started == [IdleProc EXCEPT !.op = "sendMessage", !.case = case_id,
                                       !.actor = senderId, !.role = RoleOf(senderId),
                                       !.empty = empty, !.result = "pending"]
       IN  procs' = [procs EXCEPT ![p] =
                IF empty THEN [started EXCEPT !.pc = "done", !.result = "bad_request"]
                ELSE IF fail THEN [started EXCEPT !.pc = "done", !.result = "error"]
                ELSE IF case_id \notin CaseIds
                     THEN [started EXCEPT !.pc = "done", !.result = "not_found"]
                ELSE IF ~checkMessageAccess(cases[case_id], senderId, RoleOf(senderId))
                     THEN [started EXCEPT !.pc = "done", !.result = "forbidden"]
                ELSE [started EXCEPT !.pc = "sm_insert",
                                     !.client = cases[case_id].client_id,
                                     !.lawyer = cases[case_id].lawyer_id,
                                     !.activityBefore = cases[case_id].last_activity_at]]
    /\ UNCHANGED <<now, dbVars, mail, scan, render, jobs>>

(* messageRepository.create: INSERT INTO messages; the trigger              *)
(* update_case_activity_on_message bumps the case (the rows of messages     *)
(* are not kept: rowChanged records the insert)                             *)
SendMessageInsert(p, fail) ==
    /\ procs[p].pc = "sm_insert"
    /\ fail => Throws(fail)
    /\ CountFault(fail)
    /\ IF fail
       THEN /\ procs' = Fail(p, "error")
            /\ UNCHANGED cases
       ELSE /\ cases' = update_case_last_activity(cases, procs[p].case)
            /\ procs' = [procs EXCEPT ![p].rowChanged = TRUE, ![p].pc = "sm_event"]
    /\ UNCHANGED <<now, events, notifications, emails, opCount, mail, scan, render, jobs>>

(* messageService.sendMessage, lines 38-44: append the message_sent event *)
SendMessageEvent(p, fail) ==
    /\ procs[p].pc = "sm_event"
    /\ fail => Throws(fail)
    /\ CountFault(fail)
    /\ IF fail \/ ~CaseEventInsertOk(EnumMember("message_sent"))
       THEN /\ procs' = Fail(p, "error")
            /\ UNCHANGED <<cases, events>>
       ELSE /\ events' = InsertCaseEvent(events,
                            CaseEventRow(procs[p].case, EnumMember("message_sent"), NoMeta, p))
            /\ cases' = update_case_last_activity(cases, procs[p].case)
            /\ procs' = [procs EXCEPT ![p].committed = TRUE, ![p].pc = "sm_sender"]
    /\ UNCHANGED <<now, notifications, emails, opCount, mail, scan, render, jobs>>

(* messageService.sendMessage, lines 47-70: read the sender's name, start  *)
(* the detached sendMessageNotification, return the message                *)
SendMessageReturn(p, fail) ==
    /\ procs[p].pc = "sm_sender"
    /\ fail => Throws(fail)
    /\ CountFault(fail)
    /\ procs' = IF fail THEN Fail(p, "error")
                ELSE [procs EXCEPT ![p].result = "ok", ![p].pc = "smn_notify"]
    /\ UNCHANGED <<now, dbVars, opCount, mail, scan, render, jobs>>

\* a bug that would notify the client whoever the sender is
MessageRecipientClient(row, senderId) == ClientUser(row.client_id)

\* notificationService.notifyNewMessage, lines 376-423: the user to notify,
\* NULL when there is none
MessageRecipient(row, senderId) ==
    LET client_user_id == ClientUser(row.client_id)
        lawyer_user_id == IF row.lawyer_id = NULL THEN NULL ELSE LawyerUser(row.lawyer_id)
        isFromClient == senderId = client_user_id
    IN  IF isFromClient /\ lawyer_user_id # NULL THEN lawyer_user_id
        ELSE IF ~isFromClient THEN client_user_id
        ELSE NULL

(* messageService.sendMessageNotification with                              *)
(* notificationService.notifyNewMessage: read the sender, read the case     *)
(* with its client and lawyer users, write the in-app notification of the   *)
(* other party, send the email detached                                     *)
notifyNewMessage(p, fail, ok) ==
    /\ procs[p].pc = "smn_notify"
    /\ fail => (Throws(fail) /\ ok)
    /\ CountFault(fail)
    /\ procs' = Done(p)
    /\ LET userId == MessageRecipient(cases[procs[p].case], procs[p].actor)
       IN  IF fail \/ userId = NULL
           THEN UNCHANGED <<notifications, emails>>
           ELSE /\ notifications' = notifications \cup
                       {NotificationRow(userId, "message_received", procs[p].case, p)}
                /\ emails' = emails \cup
                       {EmailRow(userId, "newMessage", procs[p].case, ok, p)}
    /\ UNCHANGED <<now, cases, events, opCount, mail, scan, render, jobs>>

(* documentService.uploadDocument, lines 19-45: read the case, check        *)
(* access (checkDocumentAccess compares as checkMessageAccess does), check  *)
(* the file type, save the file, INSERT INTO documents (the rows of         *)
(* documents are not kept: rowChanged records the insert)                   *)
UploadDocumentStore(p, case_id, uploaderId, allowed, fail) ==
    /\ Arrives(p)
    /\ fail => Throws(fail)
    /\ CountFault(fail)
    /\ LET started == [IdleProc EXCEPT !.op = "uploadDocument", !.case = case_id,
                                       !.actor = uploaderId, !.role = RoleOf(uploaderId),
                                       !.result = "pending"]
       IN  procs' = [procs EXCEPT ![p] =
                IF fail THEN [started EXCEPT !.pc = "done", !.result = "error"]
                ELSE IF case_id \notin CaseIds
                     THEN [started EXCEPT !.pc = "done", !.result = "not_found"]
                ELSE IF ~checkMessageAccess(cases[case_id], uploaderId, RoleOf(uploaderId))
                     THEN [started EXCEPT !.pc = "done", !.result = "forbidden"]
                ELSE IF ~allowed
                     THEN [started EXCEPT !.pc = "done", !.result = "bad_request"]
                ELSE [started EXCEPT !.pc = "ud_event", !.rowChanged = TRUE,
                                     !.client = cases[case_id].client_id,
                                     !.lawyer = cases[case_id].lawyer_id,
                                     !.activityBefore = cases[case_id].last_activity_at]]
    /\ UNCHANGED <<now, dbVars, mail, scan, render, jobs>>

(* documentService.uploadDocument, lines 48-73: append the                  *)
(* document_uploaded event, start the detached notifications, return        *)
UploadDocumentEvent(p, fail) ==
    /\ procs[p].pc = "ud_event"
    /\ fail => Throws(fail)
    /\ CountFault(fail)
    /\ IF fail \/ ~CaseEventInsertOk(EnumMember("document_uploaded"))
       THEN /\ procs' = Fail(p, "error")
            /\ UNCHANGED <<cases, events>>
       ELSE /\ events' = InsertCaseEvent(events,
                            CaseEventRow(procs[p].case, EnumMember("document_uploaded"),
                                         NoMeta, p))
            /\ cases' = update_case_last_activity(cases, procs[p].case)
            /\ procs' = [procs EXCEPT ![p].committed = TRUE, ![p].result = "ok",
                                      ![p].pc = "udn_notify"]
    /\ UNCHANGED <<now, notifications, emails, opCount, mail, scan, render, jobs>>

\* a bug that would route every upload to the client
DocumentRecipientClient(row, uploaderRole) == ClientUser(row.client_id)

\* sendDocumentUploadNotifications with notifyLawyerDocumentUploaded and
\* notifyClientDocumentUploaded: the user to notify, NULL when there is none
DocumentRecipient(row, uploaderRole) ==
    IF uploaderRole = "client"
    THEN IF row.lawyer_id = NULL THEN NULL ELSE LawyerUser(row.lawyer_id)
    ELSE IF uploaderRole \in {"lawyer", "admin"} THEN ClientUser(row.client_id)
    ELSE NULL

(* documentService.sendDocumentUploadNotifications: read the uploader,      *)
(* read the case, write the in-app notification; no email is sent           *)
sendDocumentUploadNotifications(p, fail) ==
    /\ procs[p].pc = "udn_notify"
    /\ fail => Throws(fail)
    /\ CountFault(fail)
    /\ procs' = Done(p)
    /\ LET userId == DocumentRecipient(cases[procs[p].case], procs[p].role)
       IN  IF fail \/ userId = NULL
           THEN UNCHANGED notifications
           ELSE notifications' = notifications \cup
                    {NotificationRow(userId, "document_uploaded", procs[p].case, p)}
    /\ UNCHANGED <<now, cases, events, emails, opCount, mail, scan, render, jobs>>

\* the client profile the intake form creates, and the lawyers it may name
IntakeClient == "c_in"
IntakeLawyerInputs == {NULL, "l1"}

\* a task of the intake pipeline is over
TaskDone(p, task, more) ==
    LET left == (procs[p].tasks \ {task}) \cup more
    IN  [procs EXCEPT ![p].tasks = left,
                      ![p].pc = IF left = {} THEN "done" ELSE "in_tasks"]

\* a bug that would leave the client's in-app notification out
IntakeTasksAdminsOnly(lawyerId) ==
    IF lawyerId = NULL THEN {"admins"} ELSE {"lawyer_email", "lawyer", "name"}

\* processIntakeForm, lines 726-771: the detached notifications it starts;
\* without a lawyer getLawyerName resolves at once and the admins' and the
\* client's notifications start with it
IntakeTasks(lawyerId) ==
    IF lawyerId = NULL THEN {"admins", "client"} ELSE {"lawyer_email", "lawyer", "name"}

(* intakeService.processIntakeForm without attached files, lines 607-645:   *)
(* the email must be new; the transaction begins, inserts user and client   *)
(* and reads the latest case number of the year and type                    *)
processIntakeForm(p, lawyerId, caseType, existingUser, fail) ==
    /\ Arrives(p)
    /\ Len(cases) < MaxCases
    /\ fail => Throws(fail)
    /\ CountFault(fail)
    /\ LET started == [IdleProc EXCEPT !.op = "intake", !.client = IntakeClient,
                                       !.lawyer = lawyerId, !.result = "pending"]
       IN  \E number \in generateCaseNumber(caseType, cases) :
               procs' = [procs EXCEPT ![p] =
                   IF fail THEN [started EXCEPT !.pc = "done", !.result = "error"]
                   ELSE IF existingUser
                        THEN [started EXCEPT !.pc = "done", !.result = "bad_request"]
                   ELSE [started EXCEPT !.number = number, !.began = now,
                                        !.pc = "in_insert"]]
    /\ UNCHANGED <<now, dbVars, mail, scan, render, jobs>>

(* processIntakeForm, lines 646-777: INSERT INTO cases with the number      *)
(* read, the case_created event, commit (NOW() and CURRENT_TIMESTAMP are    *)
(* the time the transaction began); then the welcome and case-submitted     *)
(* emails and the notification tasks are started detached and the result    *)
(* is returned                                                              *)
IntakeInsertCase(p, fail, ok) ==
    /\ procs[p].pc = "in_insert"
    /\ fail => (Throws(fail) /\ ok)
    /\ CountFault(fail)
    /\ LET id == Len(cases) + 1
           row == [NewCaseRow(IntakeClient, procs[p].lawyer)
                      EXCEPT !.case_number = procs[p].number,
                             !.created_at = procs[p].began,
                             !.last_activity_at = procs[p].began]
           event == [CaseEventRow(id, EnumMember("case_created"), NoMeta, p)
                        EXCEPT !.created_at = procs[p].began]
           welcome == EmailRow(ClientUser(IntakeClient), "welcome", id, ok, p)
           submitted == [EmailRow(ClientUser(IntakeClient), "caseSubmitted", id, ok, p)
                            EXCEPT !.seq = welcome.seq + 1]
       IN  IF \/ fail \/ ~CaseEventInsertOk(EnumMember("case_created"))
              \/ Len(cases) >= MaxCases \/ ~CaseNumberFree(cases, procs[p].number)
           THEN /\ procs' = Fail(p, "error")
                /\ UNCHANGED dbVars
           ELSE /\ cases' = Append(cases, row)
                /\ events' = Append(events, event)
                /\ emails' = emails \cup {welcome, submitted}
                /\ procs' = [procs EXCEPT ![p].case = id, ![p].rowChanged = TRUE,
                                          ![p].committed = TRUE, ![p].result = "ok",
                                          ![p].adminsLeft = Admins,
                                          ![p].tasks = IntakeTasks(procs[p].lawyer),
                                          ![p].pc = "in_tasks"]
                /\ UNCHANGED notifications
    /\ UNCHANGED <<now, opCount, mail, scan, render, jobs>>

(* intakeService.getLawyerName with a lawyer: when it resolves, the admin  *)
(* and client notifications are started; when it rejects, they are not     *)
getLawyerName(p, fail) ==
    /\ procs[p].pc = "in_tasks"
    /\ "name" \in procs[p].tasks
    /\ fail => Throws(fail)
    /\ CountFault(fail)
    /\ procs' = TaskDone(p, "name", IF fail THEN {} ELSE {"admins", "client"})
    /\ UNCHANGED <<now, dbVars, opCount, mail, scan, render, jobs>>

(* intakeService.notifyLawyerOfNewCase: read the lawyer's address, send    *)
(* the email; every failure is caught inside                               *)
notifyLawyerOfNewCase(p, fail, ok) ==
    /\ procs[p].pc = "in_tasks"
    /\ "lawyer_email" \in procs[p].tasks
    /\ fail => (Throws(fail) /\ ok)
    /\ CountFault(fail)
    /\ procs' = TaskDone(p, "lawyer_email", {})
    /\ emails' = IF fail THEN emails
                 ELSE emails \cup {EmailRow(LawyerUser(procs[p].lawyer), "lawyerNotification",
                                            procs[p].case, ok, p)}
    /\ UNCHANGED <<now, cases, events, notifications, opCount, mail, scan, render, jobs>>

(* processIntakeForm, lines 738-746: notificationService.notifyLawyerNewCase *)
(* (in-app notification, email detached)                                    *)
IntakeNotifyLawyer(p, fail, ok) ==
    /\ procs[p].pc = "in_tasks"
    /\ "lawyer" \in procs[p].tasks
    /\ fail => (Throws(fail) /\ ok)
    /\ CountFault(fail)
    /\ procs' = TaskDone(p, "lawyer", {})
    /\ IF fail
       THEN UNCHANGED <<notifications, emails>>
       ELSE /\ notifications' = notifications \cup
                   {NotificationRow(LawyerUser(procs[p].lawyer), "new_case", procs[p].case, p)}
            /\ emails' = emails \cup
                   {EmailRow(LawyerUser(procs[p].lawyer), "caseAssignedToLawyer",
                             procs[p].case, ok, p)}
    /\ UNCHANGED <<now, cases, events, opCount, mail, scan, render, jobs>>

(* processIntakeForm, lines 751-759: notifyAdminsNewCase, one iteration of  *)
(* its loop                                                                 *)
IntakeNotifyAdmins(p, fail) ==
    /\ procs[p].pc = "in_tasks"
    /\ "admins" \in procs[p].tasks
    /\ fail => Throws(fail)
    /\ CountFault(fail)
    /\ IF fail \/ procs[p].adminsLeft = <<>>
       THEN /\ procs' = TaskDone(p, "admins", {})
            /\ UNCHANGED notifications
       ELSE /\ notifications' = notifications \cup
                   {NotificationRow(Head(procs[p].adminsLeft), "new_case", procs[p].case, p)}
            /\ procs' = IF Tail(procs[p].adminsLeft) = <<>>
                        THEN [TaskDone(p, "admins", {}) EXCEPT ![p].adminsLeft = <<>>]
                        ELSE [procs EXCEPT ![p].adminsLeft = Tail(procs[p].adminsLeft)]
    /\ UNCHANGED <<now, cases, events, emails, opCount, mail, scan, render, jobs>>

(* processIntakeForm, lines 762-770: notifyClientCaseCreated *)
IntakeNotifyClient(p, fail) ==
    /\ procs[p].pc = "in_tasks"
    /\ "client" \in procs[p].tasks
    /\ fail => Throws(fail)
    /\ CountFault(fail)
    /\ procs' = TaskDone(p, "client", {})
    /\ IF fail
       THEN UNCHANGED notifications
       ELSE notifications' = notifications \cup
                {NotificationRow(ClientUser(procs[p].client), "new_case", procs[p].case, p)}
    /\ UNCHANGED <<now, cases, events, emails, opCount, mail, scan, render, jobs>>

(* imapService.processEmail for a mail without attachments that names a     *)
(* case: find the case, store the mail, append the email_received event;    *)
(* every failure is caught inside processEmail                              *)
processEmail(p, case_id, fail) ==
    /\ Arrives(p)
    /\ fail => Throws(fail)
    /\ CountFault(fail)
    /\ LET started == [IdleProc EXCEPT !.op = "processEmail", !.case = case_id,
                                       !.pc = "done"]
       IN  IF fail \/ case_id \notin CaseIds \/ ~CaseEventInsertOk(EnumMember("email_received"))
           THEN /\ procs' = [procs EXCEPT ![p] = [started EXCEPT !.result = "error"]]
                /\ UNCHANGED <<cases, events>>
           ELSE /\ events' = InsertCaseEvent(events,
                                CaseEventRow(case_id, EnumMember("email_received"), NoMeta, p))
                /\ cases' = update_case_last_activity(cases, case_id)
                /\ procs' = [procs EXCEPT ![p] =
                       [started EXCEPT !.result = "ok", !.committed = TRUE,
                            !.activityBefore = cases[case_id].last_activity_at]]
    /\ UNCHANGED <<now, notifications, emails, mail, scan, render, jobs>>

-----------------------------------------------------------------------------
(* SpecCollab: the case service together with its collaborators; of the    *)
(* intake form it has the transaction, the detached notification tasks     *)
(* that follow it are in SpecIntake                                        *)

NextCollab ==
    \/ Next
    \/ \E p \in Procs, c \in 1..MaxCases, u \in Users, empty \in BOOLEAN, fail \in BOOLEAN :
          SendMessageRead(p, c, u, empty, fail)
    \/ \E p \in Procs, fail \in BOOLEAN : SendMessageInsert(p, fail)
    \/ \E p \in Procs, fail \in BOOLEAN : SendMessageEvent(p, fail)
    \/ \E p \in Procs, fail \in BOOLEAN : SendMessageReturn(p, fail)
    \/ \E p \in Procs, fail \in BOOLEAN, ok \in BOOLEAN : notifyNewMessage(p, fail, ok)
    \/ \E p \in Procs, c \in 1..MaxCases, u \in Users, allowed \in BOOLEAN, fail \in BOOLEAN :
          UploadDocumentStore(p, c, u, allowed, fail)
    \/ \E p \in Procs, fail \in BOOLEAN : UploadDocumentEvent(p, fail)
    \/ \E p \in Procs, fail \in BOOLEAN : sendDocumentUploadNotifications(p, fail)
    \/ \E p \in Procs, l \in IntakeLawyerInputs, t \in CaseTypes,
          existingUser \in BOOLEAN, fail \in BOOLEAN :
          processIntakeForm(p, l, t, existingUser, fail)
    \/ \E p \in Procs, fail \in BOOLEAN, ok \in BOOLEAN : IntakeInsertCase(p, fail, ok)
    \/ \E p \in Procs, c \in 1..MaxCases, fail \in BOOLEAN : processEmail(p, c, fail)

SpecCollab == Init /\ [][NextCollab]_vars

-----------------------------------------------------------------------------
(* SpecIntake: the two ways a case is created, caseService.createCase and  *)
(* the intake form, each with its notification pipeline                    *)

NextIntake ==
    \/ \E p \in Procs, c \in Clients \cup {MissingClient},
          l \in CreateLawyerInputs, fail \in BOOLEAN :
          CreateCaseValidate(p, c, l, fail)
    \/ \E p \in Procs, fail \in BOOLEAN : createWithEvent(p, fail)
    \/ \E p \in Procs, fail \in BOOLEAN : CreateCaseReturn(p, fail)
    \/ \E p \in Procs, fail \in BOOLEAN, ok \in BOOLEAN :
          sendCaseCreationNotifications(p, fail, ok)
    \/ \E p \in Procs, fail \in BOOLEAN : notifyAdminsNewCase(p, fail)
    \/ \E p \in Procs, fail \in BOOLEAN, ok \in BOOLEAN : notifyLawyerNewCase(p, fail, ok)
    \/ \E p \in Procs, l \in IntakeLawyerInputs, t \in CaseTypes,
          existingUser \in BOOLEAN, fail \in BOOLEAN :
          processIntakeForm(p, l, t, existingUser, fail)
    \/ \E p \in Procs, fail \in BOOLEAN, ok \in BOOLEAN : IntakeInsertCase(p, fail, ok)
    \/ \E p \in Procs, fail \in BOOLEAN : getLawyerName(p, fail)
    \/ \E p \in Procs, fail \in BOOLEAN, ok \in BOOLEAN : notifyLawyerOfNewCase(p, fail, ok)
    \/ \E p \in Procs, fail \in BOOLEAN, ok \in BOOLEAN : IntakeNotifyLawyer(p, fail, ok)
    \/ \E p \in Procs, fail \in BOOLEAN : IntakeNotifyAdmins(p, fail)
    \/ \E p \in Procs, fail \in BOOLEAN : IntakeNotifyClient(p, fail)
    \/ ClockTick

SpecIntake == Init /\ [][NextIntake]_vars

-----------------------------------------------------------------------------
(* Properties of the case service with its collaborators (SpecCollab)      *)

NewNotifications == notifications' \ notifications
NewEmails == emails' \ emails

\* request p takes a step away from position pc
Leaves(p, pc) == procs[p].pc = pc /\ procs'[p].pc # pc

(* C15: the notification of a sent message goes to the other party only,   *)
(* decided by comparing the sender's user id with the user ids of the       *)
(* case's client and lawyer as the notification step reads them: the        *)
(* lawyer's user when the sender is the client's user, the client's user    *)
(* otherwise, never the sender; when the client sends and the case has no   *)
(* lawyer, no notification row is written and no email is sent.  No other   *)
(* step of sendMessage notifies anyone.                                     *)
C15_MessageOtherParty ==
    [][\A p \in Procs :
         procs[p].op = "sendMessage" =>
           IF Leaves(p, "smn_notify")
           THEN LET row == cases[procs[p].case]
                    sender == procs[p].actor
                    client == ClientUser(row.client_id)
                    other == IF sender # client THEN {client}
                             ELSE IF row.lawyer_id = NULL THEN {}
                             ELSE {LawyerUser(row.lawyer_id)}
                IN  /\ {n.user_id : n \in NewNotifications} \subseteq other
                    /\ {e.to : e \in NewEmails} \subseteq other
                    /\ sender \notin other
                    /\ Cardinality(NewNotifications) <= 1
                    /\ Cardinality(NewEmails) <= 1
                    /\ \A n \in NewNotifications : n.type = "message_received"
                    /\ NewEmails # {} => NewNotifications # {}
           ELSE /\ {n \in NewNotifications : n.by = p} = {}
                /\ {e \in NewEmails : e.by = p} = {}]_vars

\* a client's message on a case without lawyer went through and notified
\* no one, while an admin's message on the same case notified the client
C15_Witness ==
    \E p, q \in Procs :
        /\ procs[p].op = "sendMessage" /\ procs[p].pc = "done" /\ procs[p].result = "ok"
        /\ procs[p].actor = ClientUser(cases[procs[p].case].client_id)
        /\ cases[procs[p].case].lawyer_id = NULL
        /\ NotifiedBy(p) = {} /\ {e \in emails : e.by = p} = {}
        /\ procs[q].op = "sendMessage" /\ procs[q].pc = "done" /\ procs[q].result = "ok"
        /\ RoleOf(procs[q].actor) = "admin"
        /\ NotifiedBy(q) = {ClientUser(cases[procs[q].case].client_id)}

(* C19: the notification of an uploaded document is routed by the          *)
(* uploader's role: for a client, one in-app notification to the assigned   *)
(* lawyer when the case has one and nothing when it has none; for a lawyer  *)
(* or an admin, one in-app notification to the case's client; never an      *)
(* email, and no other step of uploadDocument notifies anyone.              *)
C19_DocumentRoutes ==
    [][\A p \in Procs :
         procs[p].op = "uploadDocument" =>
           /\ {e \in NewEmails : e.by = p} = {}
           /\ IF Leaves(p, "udn_notify")
              THEN LET row == cases[procs[p].case]
                       routes == IF procs[p].role = "client"
                                 THEN IF row.lawyer_id = NULL THEN {}
                                      ELSE {LawyerUser(row.lawyer_id)}
                                 ELSE {ClientUser(row.client_id)}
                   IN  /\ procs[p].role \in {"client", "lawyer", "admin"}
                       /\ {n.user_id : n \in NewNotifications} \subseteq routes
                       /\ Cardinality(NewNotifications) <= Cardinality(routes)
                       /\ faults' = faults =>
                              {n.user_id : n \in NewNotifications} = routes
                       /\ \A n \in NewNotifications :
                              n.type = "document_uploaded" /\ n.by = p
              ELSE {n \in NewNotifications : n.by = p} = {}]_vars

\* a client's upload on a case with a lawyer went through and notified
\* that lawyer in the application, without email
C19_Witness ==
    \E p \in Procs :
        /\ procs[p].op = "uploadDocument" /\ procs[p].pc = "done" /\ procs[p].result = "ok"
        /\ procs[p].role = "client"
        /\ cases[procs[p].case].lawyer_id # NULL
        /\ NotifiedBy(p) = {LawyerUser(cases[procs[p].case].lawyer_id)}
        /\ {e \in emails : e.by = p} = {}

\* request p names a client or a lawyer that does not exist, or carries an
\* empty message, or has ended with NotFound or a validation error
Rejected(p) ==
    \/ /\ procs[p].op = "createCase"
       /\ \/ procs[p].client \notin Clients
          \/ procs[p].lawyer # NULL /\ procs[p].lawyer \notin Lawyers
    \/ /\ procs[p].op \in {"assignLawyer", "updateCase"}
       /\ procs[p].lawyer # NULL /\ procs[p].lawyer \notin Lawyers
    \/ procs[p].op = "sendMessage" /\ procs[p].empty
    \/ procs[p].result \in {"not_found", "bad_request"}

(* C20: a mutation that names a missing client, lawyer or case, or a        *)
(* sendMessage with empty content, never succeeds and leaves no trace: it   *)
(* inserts or updates no row, appends no CaseEvent, writes no notification  *)
(* and sends no email; createCase, assignLawyer and sendMessage end with     *)
(* NotFound or the validation error when no database call fails.            *)
C20_RejectedLeavesNoTrace ==
    \A p \in Procs :
        Rejected(p) =>
            /\ procs[p].result # "ok"
            /\ ~procs[p].rowChanged /\ ~procs[p].committed
            /\ EventsBy(p) = {}
            /\ {n \in notifications : n.by = p} = {}
            /\ {e \in emails : e.by = p} = {}
            /\ (procs[p].pc = "done" /\ faults = 0 /\ procs[p].op # "updateCase")
                   => procs[p].result \in {"not_found", "bad_request"}

\* an empty message was refused and a createCase naming a missing lawyer
\* ended with NotFound
C20_Witness ==
    \E p, q \in Procs :
        /\ procs[p].op = "sendMessage" /\ procs[p].empty
        /\ procs[p].result = "bad_request"
        /\ procs[q].op = "createCase" /\ procs[q].lawyer = MissingLawyer
        /\ procs[q].result = "not_found"

-----------------------------------------------------------------------------
(* Properties of the creation paths (SpecIntake)                            *)

\* the in-app notifications request p's pipeline has written
NotificationsBy(p) == {n \in notifications : n.by = p}

\* the users of the active admins
AdminUsers == {Admins[k] : k \in DOMAIN Admins}

\* the users of the lawyers
LawyerUsers == {LawyerUser(l) : l \in Lawyers}

(* C16: a case created without lawyer, by caseService.createCase or by the  *)
(* intake form, has exactly one case_created event; its notifications go to *)
(* the client and to the active admins only, one each at most, and never to *)
(* a lawyer; when the pipeline has run to its end and no database call      *)
(* failed, the client and every active admin have exactly one.              *)
C16_CreationWithoutLawyer ==
    \A p \in Procs :
        (procs[p].op \in {"createCase", "intake"} /\ procs[p].lawyer = NULL
             /\ procs[p].committed) =>
            /\ Cardinality(EventsBy(p)) = 1
            /\ \A i \in EventsBy(p) :
                   events[i].event_type = "case_created" /\ events[i].case_id = procs[p].case
            /\ NotifiedBy(p) \cap LawyerUsers = {}
            /\ NotifiedBy(p) \subseteq {ClientUser(procs[p].client)} \cup AdminUsers
            /\ Cardinality(NotificationsBy(p)) = Cardinality(NotifiedBy(p))
            /\ \A n \in NotificationsBy(p) : n.case_id = procs[p].case
            /\ (procs[p].pc = "done" /\ faults = 0) =>
                   NotifiedBy(p) = {ClientUser(procs[p].client)} \cup AdminUsers

\* the intake form has created a case without lawyer, its notifications
\* are all written: one for the client, one for every admin, in any order
C16_Witness ==
    \E p \in Procs :
        /\ procs[p].op = "intake" /\ procs[p].lawyer = NULL
        /\ procs[p].pc = "done" /\ procs[p].committed
        /\ NotifiedBy(p) = {ClientUser(procs[p].client)} \cup AdminUsers
        /\ Cardinality(NotificationsBy(p)) = 1 + Len(Admins)
        /\ \E n, m \in NotificationsBy(p) :
               n.user_id \in AdminUsers /\ m.user_id = ClientUser(procs[p].client)
                                        /\ n.seq < m.seq

-----------------------------------------------------------------------------
(* SpecNumber: the two creation paths over an empty table of cases, their   *)
(* transactions interleaved                                                 *)

InitNumber ==
    /\ now = 0
    /\ cases = <<>>
    /\ events = <<>>
    /\ notifications = {}
    /\ emails = {}
    /\ procs = [p \in Procs |-> IdleProc]
    /\ opCount = 0
    /\ faults = 0
    /\ mail = IdleMail
    /\ scan = IdleScan
    /\ render = IdleRender
    /\ jobs = IdleJobs

NextNumber ==
    \/ \E p \in Procs, c \in Clients \cup {MissingClient},
          l \in CreateLawyerInputs, fail \in BOOLEAN :
          CreateCaseValidate(p, c, l, fail)
    \/ \E p \in Procs, fail \in BOOLEAN : createWithEvent(p, fail)
    \/ \E p \in Procs, l \in IntakeLawyerInputs, t \in CaseTypes,
          existingUser \in BOOLEAN, fail \in BOOLEAN :
          processIntakeForm(p, l, t, existingUser, fail)
    \/ \E p \in Procs, fail \in BOOLEAN, ok \in BOOLEAN : IntakeInsertCase(p, fail, ok)
    \/ ClockTick

SpecNumber == InitNumber /\ [][NextNumber]_vars

\* the type prefixes of getCaseTypePrefix
TypePrefixes == {getCaseTypePrefix(t) : t \in CaseTypes} \cup {"OT"}

\* the number has the form {year}-{type-prefix}-{4-digit sequence}
WellFormedNumber(n) ==
    /\ n.literal = ""
    /\ n.prefix \in TypePrefixes
    /\ n.width = 4 /\ n.seq \in 1..9999

\* the sequence values in use for the year and prefix of number n
SequencesLike(n) ==
    {cases[id].case_number.seq :
        id \in {i \in CaseIds : /\ cases[i].case_number.literal = n.literal
                                 /\ cases[i].case_number.year = n.year
                                 /\ cases[i].case_number.prefix = n.prefix}}

\* no two cases share a case number
NumbersUnique ==
    \A i, j \in CaseIds : i # j => cases[i].case_number # cases[j].case_number

\* the numbers of one year and prefix count up from 1 without a gap
NumbersCountUp ==
    \A i \in CaseIds :
        SequencesLike(cases[i].case_number)
            = 1..Cardinality(SequencesLike(cases[i].case_number))

\* the numbers of the cases the intake form created are well formed
IntakeNumbersWellFormed ==
    \A p \in Procs :
        (procs[p].op = "intake" /\ procs[p].committed) =>
            WellFormedNumber(cases[procs[p].case].case_number)

(* C21: every case a request has created, on either creation path, has a    *)
(* case number of the form {year}-{type-prefix}-{4-digit sequence}, the     *)
(* sequences of one year and prefix count up from 1 (each is 1 + the        *)
(* highest before it), and no two cases share a number, also when the       *)
(* creations are interleaved.                                               *)
C21_CaseNumbers ==
    /\ \A p \in Procs :
           (procs[p].op \in {"createCase", "intake"} /\ procs[p].committed) =>
               WellFormedNumber(cases[procs[p].case].case_number)
    /\ NumbersCountUp
    /\ NumbersUnique

-----------------------------------------------------------------------------
(* SpecRender: emailTemplateService.renderTemplate.  A string is a sequence *)
(* of tokens: pieces of plain text, placeholders {{name}}, and the markers  *)
(* {{#if name}} and {{/if}} of a conditional block.                         *)

MaxTemplateLen == 3     \* tokens of a template
MaxVariables == 2       \* entries of the variables map

Text(t) == [kind |-> "text", name |-> t]
Placeholder(v) == [kind |-> "var", name |-> v]
IfOpen(v) == [kind |-> "if", name |-> v]
IfClose == [kind |-> "endif", name |-> ""]

\* the keys a variables map may have; "(" stands for a key that is no valid
\* regular expression source
VariableKeys == {"name", "title", "("}
TemplateTokens ==
    {Text("Hello"), Placeholder("name"), Placeholder("title"), IfOpen("name"), IfClose}

\* the values a variable may have: the empty string, plain text, or text
\* that reads as a placeholder
VariableValues == {<<>>, <<Text("Ana")>>, <<Placeholder("title")>>}

SeqsUpTo(S, n) == UNION {[1..k -> S] : k \in 0..n}

Templates == SeqsUpTo(TemplateTokens, MaxTemplateLen)

\* the variables map in the order of Object.entries: no key twice
VariableMaps ==
    {m \in SeqsUpTo([key : VariableKeys, value : VariableValues], MaxVariables) :
        \A i, j \in DOMAIN m : i # j => m[i].key # m[j].key}

\* new RegExp(`\\{\\{${key}\\}\\}`, 'g') throws a SyntaxError for such a key
ValidRegExp(key) == key # "("

\* rendered.replace(regex, value || ''): every occurrence of {{key}}
RECURSIVE ReplaceAll(_, _, _)
ReplaceAll(str, key, value) ==
    IF str = <<>> THEN <<>>
    ELSE (IF Head(str) = Placeholder(key) THEN value ELSE <<Head(str)>>)
             \o ReplaceAll(Tail(str), key, value)

\* the loop over Object.entries(variables)
RECURSIVE ReplaceVariables(_, _)
ReplaceVariables(str, entries) ==
    IF entries = <<>> THEN [crashed |-> FALSE, out |-> str]
    ELSE IF ~ValidRegExp(Head(entries).key) THEN [crashed |-> TRUE, out |-> <<>>]
    ELSE ReplaceVariables(ReplaceAll(str, Head(entries).key, Head(entries).value),
                          Tail(entries))

\* variables[varName] is truthy
Truthy(variables, varName) ==
    \E i \in DOMAIN variables : variables[i].key = varName /\ variables[i].value # <<>>

\* the replace of the conditional blocks: {{#if v}} up to the nearest {{/if}}
RECURSIVE ReplaceBlocks(_, _)
ReplaceBlocks(str, variables) ==
    IF str = <<>> THEN <<>>
    ELSE LET rest == Tail(str)
             closes == {j \in DOMAIN rest : rest[j] = IfClose}
         IN  IF Head(str).kind = "if" /\ closes # {}
             THEN LET j == CHOOSE c \in closes : \A d \in closes : c <= d
                  IN  (IF Truthy(variables, Head(str).name)
                       THEN SubSeq(rest, 1, j - 1) ELSE <<>>)
                          \o ReplaceBlocks(SubSeq(rest, j + 1, Len(rest)), variables)
             ELSE <<Head(str)>> \o ReplaceBlocks(rest, variables)

\* emailTemplateService.renderTemplate
renderTemplate(template, variables) ==
    LET replaced == ReplaceVariables(template, variables)
    IN  IF replaced.crashed THEN replaced
        ELSE [crashed |-> FALSE, out |-> ReplaceBlocks(replaced.out, variables)]

InitRender ==
    /\ now = 0
    /\ cases = <<>>
    /\ events = <<>>
    /\ notifications = {}
    /\ emails = {}
    /\ procs = [p \in Procs |-> IdleProc]
    /\ opCount = 0
    /\ faults = 0
    /\ mail = IdleMail
    /\ scan = IdleScan
    /\ render \in {[IdleRender EXCEPT !.template = t, !.variables = v] :
                       t \in Templates, v \in VariableMaps}
    /\ jobs = IdleJobs

\* renderTemplate(template, variables) is called
Render ==
    /\ render.pc = "idle"
    /\ LET r == renderTemplate(render.template, render.variables)
       IN  render' = [render EXCEPT !.pc = IF r.crashed THEN "done" ELSE "rendered",
                                    !.crashed = r.crashed, !.rendered = r.out]
    /\ UNCHANGED <<now, dbVars, procs, opCount, faults, mail, scan, jobs>>

\* the result is rendered once more with the same variables
RenderAgain ==
    /\ render.pc = "rendered"
    /\ LET r == renderTemplate(render.rendered, render.variables)
       IN  render' = [render EXCEPT !.pc = "done", !.again = r.out]
    /\ UNCHANGED <<now, dbVars, procs, opCount, faults, mail, scan, jobs>>

NextRender == Render \/ RenderAgain

SpecRender == InitRender /\ [][NextRender]_vars

\* the placeholders left in a string
PlaceholdersIn(str) == {str[i].name : i \in {k \in DOMAIN str : str[k].kind = "var"}}

\* the keys of the variables map
KeysOf(variables) == {variables[i].key : i \in DOMAIN variables}

\* a placeholder of the template whose variable the map does not have is
\* not in the output
MissingRenderedBlank ==
    render.pc \in {"rendered", "done"} =>
        (PlaceholdersIn(render.template) \ KeysOf(render.variables))
            \cap PlaceholdersIn(render.rendered) = {}

\* no input makes renderTemplate throw
RenderNeverCrashes == ~render.crashed

\* rendering the result again with the same variables returns it unchanged
RenderIdempotent ==
    (render.pc = "done" /\ ~render.crashed) => render.again = render.rendered

(* C22: renderTemplate is total and idempotent: no input makes it throw, a  *)
(* placeholder whose variable is missing from the map is not left in the    *)
(* output, and rendering the result again with the same variables returns   *)
(* it unchanged.                                                            *)
C22_RenderTotalIdempotent ==
    /\ RenderNeverCrashes
    /\ MissingRenderedBlank
    /\ RenderIdempotent

-----------------------------------------------------------------------------
(* SpecOverlap: runs of inactivityCheckJob that overlap. cron starts a run *)
(* every day at 9:00 and an admin starts one with POST                     *)
(* /jobs/inactivity-check; nothing keeps a run from starting while another *)
(* is in its loop. Time is counted in days.                                *)

RunIds == 1..MaxJobs

\* cron.schedule('0 9 * * *', ...) and adminController.triggerInactivityCheck
Triggers == {"cron", "manual"}

\* the open cases the runs find in the table
OverlapCaseRows == {row \in ScanCaseRows : row.status = "active"}

\* the catch block of run, for run r
RunCaught(j) ==
    [j EXCEPT !.failCount = j.failCount + 1, !.i = j.i + 1, !.pc = "loop"]

\* run, lines 24-33: run r starts and reads the inactive cases
RunStart(r, trigger, fail) ==
    /\ jobs[r].pc = "idle"
    /\ jobs[r].trigger = NULL
    /\ CountFault(Throws(fail))
    /\ \E inactiveCases \in getInactiveCasesForNotification(ThresholdDays) :
           jobs' = [jobs EXCEPT ![r] =
               [IdleJob EXCEPT !.trigger = trigger,
                               !.selected = IF Throws(fail) THEN <<>> ELSE inactiveCases,
                               !.pc = IF Throws(fail) THEN "done" ELSE "loop"]]
    /\ UNCHANGED <<now, dbVars, procs, opCount, mail, scan, render>>

\* sendInactivityNotification in run r
RunNotification(r, fail, ok) ==
    /\ jobs[r].pc = "loop"
    /\ jobs[r].i <= Len(jobs[r].selected)
    /\ CountFault(Throws(fail))
    /\ LET id == jobs[r].selected[jobs[r].i]
       IN  IF Throws(fail)
           THEN /\ jobs' = [jobs EXCEPT ![r] = RunCaught(jobs[r])]
                /\ UNCHANGED <<notifications, emails>>
           ELSE /\ notifications' = notifications \cup
                      {NotificationRow(ClientUser(cases[id].client_id), "system_alert", id, 0)}
                /\ emails' = emails \cup
                      {EmailRow(ClientUser(cases[id].client_id), "inactivityReminder", id, ok, 0)}
                /\ jobs' = [jobs EXCEPT ![r].pc = "stamp",
                               ![r].sent = Append(jobs[r].sent, [case |-> id, at |-> now])]
    /\ UNCHANGED <<now, cases, events, procs, opCount, mail, scan, render>>

\* updateNotificationTimestamp in run r
RunTimestamp(r, fail) ==
    /\ jobs[r].pc = "stamp"
    /\ CountFault(Throws(fail))
    /\ IF Throws(fail)
       THEN /\ jobs' = [jobs EXCEPT ![r] = RunCaught(jobs[r])]
            /\ UNCHANGED cases
       ELSE /\ cases' = [cases EXCEPT
                   ![jobs[r].selected[jobs[r].i]].last_inactivity_notification = now]
            /\ jobs' = [jobs EXCEPT ![r].pc = "log"]
    /\ UNCHANGED <<now, events, notifications, emails, procs, opCount, mail, scan, render>>

\* logInactivityEvent in run r, then successCount++
RunLogEvent(r, fail) ==
    /\ jobs[r].pc = "log"
    /\ CountFault(Throws(fail))
    /\ LET id == jobs[r].selected[jobs[r].i]
           event_type == EnumMember("deadline_reminder")
           row == CaseEventRow(id, event_type,
                      [NoMeta EXCEPT !.days_inactive = now - cases[id].last_activity_at], 0)
       IN  IF Throws(fail) \/ ~CaseEventInsertOk(event_type)
           THEN /\ jobs' = [jobs EXCEPT ![r] = RunCaught(jobs[r])]
                /\ UNCHANGED <<cases, events>>
           ELSE /\ events' = InsertCaseEvent(events, row)
                /\ cases' = update_case_last_activity(cases, id)
                /\ jobs' = [jobs EXCEPT ![r].successCount = jobs[r].successCount + 1,
                                        ![r].i = jobs[r].i + 1, ![r].pc = "loop"]
    /\ UNCHANGED <<now, notifications, emails, procs, opCount, mail, scan, render>>

\* run, line 48: the loop of run r is over
RunFinish(r) ==
    /\ jobs[r].pc = "loop"
    /\ jobs[r].i > Len(jobs[r].selected)
    /\ jobs' = [jobs EXCEPT ![r].pc = "done"]
    /\ UNCHANGED <<now, dbVars, procs, opCount, faults, mail, scan, render>>

\* the next morning comes, whatever the runs are doing
NextMorning ==
    /\ now < FirstScanDay + MaxOverlapDays
    /\ now' = now + 1
    /\ UNCHANGED <<dbVars, procs, opCount, faults, mail, scan, render, jobs>>

InitOverlap ==
    /\ now = FirstScanDay
    /\ cases \in [1..MaxCases -> OverlapCaseRows]
    /\ events = <<>>
    /\ notifications = {}
    /\ emails = {}
    /\ procs = [p \in Procs |-> IdleProc]
    /\ opCount = 0
    /\ faults = 0
    /\ mail = IdleMail
    /\ scan = IdleScan
    /\ render = IdleRender
    /\ jobs = IdleJobs

NextOverlap ==
    \/ \E r \in RunIds, trigger \in Triggers, fail \in BOOLEAN : RunStart(r, trigger, fail)
    \/ \E r \in RunIds, fail \in BOOLEAN, ok \in BOOLEAN : RunNotification(r, fail, ok)
    \/ \E r \in RunIds, fail \in BOOLEAN : RunTimestamp(r, fail)
    \/ \E r \in RunIds, fail \in BOOLEAN : RunLogEvent(r, fail)
    \/ \E r \in RunIds : RunFinish(r)
    \/ NextMorning

SpecOverlap == InitOverlap /\ [][NextOverlap]_vars

\* the in-app reminders written, by run and position
Reminders == {x \in RunIds \X (1..MaxCases) : x[2] \in DOMAIN jobs[x[1]].sent}

(* C26: no case receives more than one inactivity reminder within 7 days,  *)
(* for every interleaving of scanner runs, a cron run or a manually        *)
(* triggered run overlapping a run still in its loop included, where both  *)
(* select the case before either stamps it. Stated for the behaviours in   *)
(* which no database call throws.                                          *)
C26_OneReminderPerWeek ==
    faults = 0 =>
        \A x, y \in Reminders :
            LET a == jobs[x[1]].sent[x[2]]
                b == jobs[y[1]].sent[y[2]]
            IN  (x # y /\ a.case = b.case) =>
                    (a.at - b.at >= ThrottleDays \/ b.at - a.at >= ThrottleDays)

====
